---------------------------- MODULE Spec2Model ----------------------------
(***************************************************************************)
(* VerbaOS backend: the file-backed Similarity Store                       *)
(* (app/services/intent_embeddings.py) and the request handlers of         *)
(* app/routes/audio.py that read and write it, together with the pending   *)
(* embedding store of the learning loop.                                   *)
(*                                                                         *)
(* Embeddings are short integer vectors (the code's 768 floats); a mean is *)
(* kept as the pair (element-wise sum, count), so that comparing two       *)
(* means is exact.  The handlers are coroutines on one event loop: a       *)
(* handler gives up the loop only at an await, and the synchronous store   *)
(* functions run as a chain of steps during which no other handler is      *)
(* enabled.                                                                *)
(***************************************************************************)
EXTENDS Integers, Sequences, FiniteSets, TLC

\* ------------------------------------------------------------------ bounds
\* samples the store holds at most, over all intents
MaxSamples == 3
\* writes of the file that fail in one run
MaxSaveFailures == 1
\* distinct intents that calls pass as a valid label
NumArgIntents == 2
\* largest batch passed to add_embeddings_batch / number of files of train_batch
MaxBatch == 2
\* capacity of the pending store: the code's 100 (audio.py:142), scaled down
PendingCapacity == 2
\* tokens uuid4() hands out in one run
MaxTokens == 4
\* process_audio requests in flight at once
NumAudioHandlers == 2
\* intents that have samples in the file the service starts from
NumLoaded == 5

\* rows of the table intent_embeddings beyond which nothing is inserted
MaxRows == 3
\* the longest text of the full vocabulary, in words
MaxWords == 2
\* the longest text of the words no stage but the last can match
MaxShortWords == 4

\* ------------------------------------------------------- program constants
INTENTS ==
  <<"HELP", "WATER", "YES", "NO", "PAIN", "EMERGENCY", "BATHROOM", "TIRED", "COLD", "HOT">>

MIN_SAMPLES_FOR_PREDICTION == 2

K_NEIGHBORS == 5

\* 0.05, in hundredths
SIMILARITY_MARGIN == 5

IntentSet == {INTENTS[k] : k \in 1..Len(INTENTS)}

\* labels the calls of the model are made with: valid ones, the classifier's
\* UNKNOWN, and one label outside the intent set
ValidArgs == {INTENTS[k] : k \in 1..NumArgIntents}
IntentArgs == ValidArgs \cup {"UNKNOWN", "JUICE"}

\* embeddings the inference service returns: two of one dimension, one of another
Embeddings == {<<1>>, <<3>>, <<1, 2>>}

\* embeddings the inference service returns to the request handlers
MlEmbeddings == {<<1>>, <<1, 2>>}

Batches == UNION {[1..n -> Embeddings] : n \in 1..MaxBatch}

\* ----------------------------------------------------------------- vectors
RECURSIVE VecSum(_)
VecSum(samples) ==
  IF Len(samples) = 1 THEN samples[1]
  ELSE LET rest == VecSum(Tail(samples))
       IN [j \in 1..Len(samples[1]) |-> samples[1][j] + rest[j]]

\* np.array(samples) of lists of different lengths has no rectangular shape
Ragged(samples) == \E a, b \in 1..Len(samples) : Len(samples[a]) # Len(samples[b])

None == [sum |-> <<>>, n |-> 0]

\* np.mean(np.array(samples), axis=0), as (sum, count)
MeanOf(samples) == [sum |-> VecSum(samples), n |-> Len(samples)]

\* two means are the same vector
SameMean(c, d) ==
  IF c.n = 0 \/ d.n = 0 THEN c.n = d.n
  ELSE /\ Len(c.sum) = Len(d.sum)
       /\ \A j \in 1..Len(c.sum) : c.sum[j] * d.n = d.sum[j] * c.n

EmptyDb == [i \in IntentSet |-> <<>>]
NoCentroids == [i \in IntentSet |-> None]

VARIABLES
  intent_db,         \* _intent_db: intent -> list of samples
  intent_centroids,  \* _intent_centroids: intent -> mean or None
  db_file,           \* intent_embeddings.json
  pending,           \* _pending_embeddings, in insertion order
  next_uuid,         \* tokens uuid4() has handed out so far
  pa_pc,             \* process_audio coroutines: where each one is suspended
  tb,                \* the train_batch coroutine
  wr,                \* the store call that is running, if any
  ret,               \* what the last store call returned
  resp,              \* the last HTTP response
  pre,               \* the store as it was when the last store call started
  redeemed,          \* token -> how often a handler took it, how many samples came of it
  save_failures,     \* writes of the file that have failed so far
  call,              \* the last call of a read-only function since the store last changed
  intent_embeddings  \* the table intent_embeddings of the database: its rows, oldest first

vars ==
  <<intent_db, intent_centroids, db_file, pending, next_uuid, pa_pc, tb, wr, ret, resp,
    pre, redeemed, save_failures, call, intent_embeddings>>

storeVars == <<intent_db, intent_centroids, db_file>>
handlerVars == <<pending, next_uuid, pa_pc, tb, resp, redeemed>>

Store == [db |-> intent_db, cents |-> intent_centroids, file |-> db_file]

get_db_stats(db) == [i \in DOMAIN db |-> Len(db[i])]

RECURSIVE TotalFrom(_, _)
TotalFrom(db, k) == IF k > Len(INTENTS) THEN 0 ELSE Len(db[INTENTS[k]]) + TotalFrom(db, k + 1)

\* samples in the store
Total(db) == TotalFrom(db, 1)

\* the store has room for n more samples
Room(n) == Total(intent_db) + n <= MaxSamples

\* ------------------------------------------------------ _recompute_centroids
\* The loop runs over the intents in dictionary order and raises at the first
\* intent whose samples do not form a rectangular array; the centroids set
\* before that keep their new value, the others their old one.
RECURSIVE RecomputeFrom(_, _, _)
RecomputeFrom(db, cents, k) ==
  IF k > Len(INTENTS) THEN [cents |-> cents, raised |-> FALSE]
  ELSE LET intent == INTENTS[k]
           samples == db[intent]
       IN IF Len(samples) >= MIN_SAMPLES_FOR_PREDICTION
          THEN IF Ragged(samples)
               THEN [cents |-> cents, raised |-> TRUE]
               ELSE RecomputeFrom(db, [cents EXCEPT ![intent] = MeanOf(samples)], k + 1)
          ELSE RecomputeFrom(db, [cents EXCEPT ![intent] = None], k + 1)

recompute_centroids(db, cents) == RecomputeFrom(db, cents, 1)

\* ------------------------------------------------------------------ _save_db
\* open(DB_FILE, "w") truncates, json.dump writes; either can fail, and the
\* except clause swallows the failure.
SaveOutcomes == {"written", "open_failed", "dump_failed"}

save_db(db, file, outcome) ==
  CASE outcome = "written" -> [status |-> "ok", data |-> db]
    [] outcome = "open_failed" -> file
    [] outcome = "dump_failed" -> [status |-> "corrupt", data |-> EmptyDb]

\* ------------------------------------------------------------ dictionary ops
\* an insert at the front of the list
DictPrepend(db, intent, es) ==
  IF intent \in DOMAIN db THEN [db EXCEPT ![intent] = es \o @] ELSE db

\* _intent_db[intent].append / .extend: a missing key raises KeyError
DictExtend(db, intent, es) ==
  IF intent \in DOMAIN db THEN [db EXCEPT ![intent] = @ \o es] ELSE db

\* _intent_db[intent] = []: an assignment creates the key
DictSet(db, intent, v) ==
  [i \in DOMAIN db \cup {intent} |-> IF i = intent THEN v ELSE db[i]]

\* `intent not in INTENTS` (add_embedding, add_embeddings_batch)
InIntents(intent) == intent \in IntentSet

\* clear_intent without its membership test
InDbAlways(db, intent) == TRUE

\* `intent in _intent_db` (clear_intent)
InDb(db, intent) == intent \in DOMAIN db

\* ------------------------------------------------------------ the event loop
NoWrite ==
  [phase |-> "none", op |-> "", intent |-> "", n |-> 0, caller |-> "", before |-> FALSE]

\* a store call that awaited its file write would give up the loop after the append
YieldPhasesAwaitSave == {"none", "appended"}

\* phases of a store call in which the coroutine has given up the loop: only
\* "none"; add_embedding, add_embeddings_batch and clear_intent are plain
\* functions without an await
YieldPhases == {"none"}

LoopFree == wr.phase \in YieldPhases

\* a call of a store function: its arguments, then what it gave back (done: it
\* is over; raised: it ended in an exception; ok, n: the value returned)
NoRet ==
  [op |-> "", intent |-> "", arg |-> <<>>, mismatch |-> FALSE, done |-> FALSE,
   raised |-> FALSE, ok |-> FALSE, n |-> 0]

NoResp ==
  [handler |-> "", code |-> 0, error |-> "", before |-> FALSE, learned |-> FALSE,
   absent |-> FALSE]

\* a handler whose errors are swallowed and answered as a success
ResponseSwallowed(handler, code, error, before, learned) ==
  [handler |-> handler, code |-> 200, error |-> "", before |-> before, learned |-> learned,
   absent |-> FALSE]

\* an HTTP response; before: a handler had taken the call's token before this
\* call; learned: the call stored a sample; absent: the call's token was not in
\* the pending store when the call was made
Response(handler, code, error, before, learned) ==
  [handler |-> handler, code |-> code, error |-> error, before |-> before, learned |-> learned,
   absent |-> FALSE]

IdleBatch == [pc |-> "idle", intent |-> "", left |-> 0, embeddings_to_add |-> <<>>]

\* no read-only call has been made since the store last changed
NoCall == [fn |-> "", arg |-> <<>>, out |-> <<>>]

Init ==
  /\ intent_db = EmptyDb
  /\ intent_centroids = NoCentroids
  /\ db_file = [status |-> "absent", data |-> EmptyDb]
  /\ pending = <<>>
  /\ next_uuid = 0
  /\ pa_pc = [h \in 1..NumAudioHandlers |-> "idle"]
  /\ tb = IdleBatch
  /\ wr = NoWrite
  /\ ret = NoRet
  /\ resp = NoResp
  /\ pre = [db |-> EmptyDb, cents |-> NoCentroids, file |-> [status |-> "absent", data |-> EmptyDb]]
  /\ redeemed = <<>>
  /\ save_failures = 0
  /\ call = NoCall
  /\ intent_embeddings = <<>>

\* an embedding of es differs in length from a sample already stored
DimensionMismatch(db, es) ==
  \E k \in 1..Len(es), i \in DOMAIN db :
    \E s \in 1..Len(db[i]) : Len(db[i][s]) # Len(es[k])

\* ---------------------------------------------------------- the store calls
\* add_embedding / add_embeddings_batch up to and including the append
\* (lines 306-310, 330-334).  caller says which handler to answer, before
\* whether its token had been taken before.
BeginAdd(op, intent, es, caller, before) ==
  /\ pre' = IF caller = "direct" THEN Store ELSE pre
  /\ ret' = IF caller = "direct"
            THEN [NoRet EXCEPT !.op = op, !.intent = intent, !.arg = es,
                               !.mismatch = DimensionMismatch(intent_db, es),
                               !.done = ~InIntents(intent)]
            ELSE ret
  /\ IF ~InIntents(intent)
     THEN /\ wr' = NoWrite
          /\ UNCHANGED storeVars
     ELSE /\ intent_db' = DictExtend(intent_db, intent, es)
          /\ wr' = [phase |-> "appended", op |-> op, intent |-> intent, n |-> Len(es),
                    caller |-> caller, before |-> before]
          /\ UNCHANGED <<intent_centroids, db_file>>

\* clear_intent up to and including the assignment (lines 357-358)
BeginClear(intent, caller) ==
  /\ pre' = IF caller = "direct" THEN Store ELSE pre
  /\ ret' = IF caller = "direct"
            THEN [NoRet EXCEPT !.op = "clear_intent", !.intent = intent,
                               !.done = ~InDb(intent_db, intent)]
            ELSE ret
  /\ IF ~InDb(intent_db, intent)
     THEN /\ wr' = NoWrite
          /\ UNCHANGED storeVars
     ELSE /\ intent_db' = DictSet(intent_db, intent, <<>>)
          /\ wr' = [phase |-> "appended", op |-> "clear_intent", intent |-> intent, n |-> 0,
                    caller |-> caller, before |-> FALSE]
          /\ UNCHANGED <<intent_centroids, db_file>>

\* the _save_db() call of the running store call (lines 311, 335, 359)
SaveDb(outcome) ==
  /\ wr.phase = "appended"
  /\ outcome # "written" => save_failures < MaxSaveFailures
  /\ db_file' = save_db(intent_db, db_file, outcome)
  /\ save_failures' = IF outcome = "written" THEN save_failures ELSE save_failures + 1
  /\ wr' = [wr EXCEPT !.phase = "saved"]
  /\ UNCHANGED <<intent_db, intent_centroids, ret, pre, handlerVars>>
  /\ UNCHANGED <<call, intent_embeddings>>

\* what the handler that made the store call answers once the call is over
\* (an exception that leaves the handler is a 500)
Answer(raised) ==
  IF wr.caller = "direct" THEN resp
  ELSE IF raised THEN Response(wr.caller, 500, "internal_error", wr.before, FALSE)
  ELSE Response(wr.caller, 200, "", wr.before, wr.op # "clear_intent")

\* the rest of the running store call: _recompute_centroids() and the return
\* for the two inserts (lines 312-315, 336-339), the return for clear_intent
\* (line 360)
Finish ==
  /\ wr.phase = "saved"
  /\ LET r == IF wr.op = "clear_intent"
              THEN [cents |-> intent_centroids, raised |-> FALSE]
              ELSE recompute_centroids(intent_db, intent_centroids)
     IN /\ intent_centroids' = r.cents
        /\ ret' = IF wr.caller = "direct"
                  THEN [ret EXCEPT !.done = TRUE, !.raised = r.raised, !.ok = ~r.raised,
                                   !.n = IF r.raised THEN 0 ELSE wr.n]
                  ELSE ret
        /\ resp' = Answer(r.raised)
  /\ wr' = NoWrite
  /\ tb' = IF wr.caller = "train_batch" THEN IdleBatch ELSE tb
  /\ UNCHANGED <<intent_db, db_file, pre, pending, next_uuid, pa_pc, redeemed, save_failures>>
  /\ UNCHANGED <<call, intent_embeddings>>

\* ------------------------------------------- the store functions, called directly
CallAddEmbedding(intent, embedding) ==
  /\ LoopFree
  /\ Room(1)
  /\ BeginAdd("add_embedding", intent, <<embedding>>, "direct", FALSE)
  /\ UNCHANGED <<handlerVars, save_failures>>
  /\ call' = NoCall
  /\ UNCHANGED intent_embeddings

CallAddEmbeddingsBatch(intent, embeddings) ==
  /\ LoopFree
  /\ Room(Len(embeddings))
  /\ BeginAdd("add_embeddings_batch", intent, embeddings, "direct", FALSE)
  /\ UNCHANGED <<handlerVars, save_failures>>
  /\ call' = NoCall
  /\ UNCHANGED intent_embeddings

CallClearIntent(intent) ==
  /\ LoopFree
  /\ BeginClear(intent, "direct")
  /\ UNCHANGED <<handlerVars, save_failures>>
  /\ call' = NoCall
  /\ UNCHANGED intent_embeddings

CallRecomputeCentroids ==
  /\ LoopFree
  /\ LET r == recompute_centroids(intent_db, intent_centroids)
     IN /\ intent_centroids' = r.cents
        /\ ret' = [NoRet EXCEPT !.op = "_recompute_centroids", !.done = TRUE,
                                !.raised = r.raised, !.ok = ~r.raised]
  /\ pre' = Store
  /\ UNCHANGED <<intent_db, db_file, wr, handlerVars, save_failures>>
  /\ call' = NoCall
  /\ UNCHANGED intent_embeddings

\* ------------------------------------------------------- the pending store
PendingIds(p) == {p[k].id : k \in 1..Len(p)}

PendingGet(p, id) == (CHOOSE k \in 1..Len(p) : p[k].id = id)

\* _pending_embeddings[embedding_id] = embedding: a new key goes last, an
\* existing key keeps its place
PendingInsert(p, id, embedding) ==
  IF id \in PendingIds(p)
  THEN [k \in 1..Len(p) |-> IF p[k].id = id THEN [id |-> id, emb |-> embedding] ELSE p[k]]
  ELSE Append(p, [id |-> id, emb |-> embedding])

\* an eviction that drops the newest entry
PendingEvictNewest(p) == IF Len(p) > PendingCapacity THEN SubSeq(p, 1, Len(p) - 1) ELSE p

\* an eviction that starts one entry late
PendingEvictLate(p) == IF Len(p) > PendingCapacity + 1 THEN Tail(p) ELSE p

\* if len(_pending_embeddings) > 100: del _pending_embeddings[list(keys())[0]]
PendingEvict(p) == IF Len(p) > PendingCapacity THEN Tail(p) ELSE p

\* a lookup that leaves the entry in place
PendingPopKeep(p, id) == p

\* _pending_embeddings.pop(embedding_id)
PendingPop(p, id) == SelectSeq(p, LAMBDA x : x.id # id)

\* a token generator that repeats itself
NewTokenFixed(issued) == 1

\* str(uuid.uuid4()): a token no earlier call was given; tokens are numbered
\* in the order they are issued
NewToken(issued) == issued + 1

\* a handler has taken the token before
Taken(id) == id \in 1..Len(redeemed) /\ redeemed[id].taken > 0

\* the HTTPException a handler raises before it has popped the token
Rejected(handler, code, error, embedding_id) ==
  [Response(handler, code, error, Taken(embedding_id), FALSE)
     EXCEPT !.absent = embedding_id \notin PendingIds(pending)]

Take(id, stores) ==
  [redeemed EXCEPT ![id] = [taken |-> @.taken + 1, stored |-> @.stored + stores]]

\* the first of a set of positions
First(S) == CHOOSE i \in S : \A j \in S : i <= j

\* the list of the values of a function on 1..n
List(f) == SubSeq(f, 1, Len(f))

\* ------------------------------------------------------------ predict_intent
IsZero(v) == \A j \in 1..Len(v) : v[j] = 0

\* cosine_similarity: np.dot of two vectors of different lengths raises,
\* unless a zero norm returned 0.0 before
CosineRaises(a, b) == ~IsZero(a) /\ ~IsZero(b) /\ Len(a) # Len(b)

\* predict_intent raises on the query (lines 180-192)
PredictRaises(db, cents, embedding) ==
  \E i \in DOMAIN db :
    /\ Len(db[i]) >= MIN_SAMPLES_FOR_PREDICTION
    /\ \/ cents[i].n # 0 /\ CosineRaises(embedding, cents[i].sum)
       \/ \E k \in 1..Len(db[i]) : CosineRaises(embedding, db[i][k])

\* Similarities are fixed-point numbers: a cosine is kept in units of 1/Scale,
\* rounded towards zero; a combined score in units of 1/ScoreOne; a calibrated
\* confidence in units of 1/ConfOne, which holds the products with 0.8, 0.85
\* and 0.95 exactly.
Scale == 100
ScoreOne == 10 * Scale
ConfOne == ScoreOne * 100 * 100

RECURSIVE DotFrom(_, _, _)
DotFrom(a, b, j) == IF j > Len(a) THEN 0 ELSE a[j] * b[j] + DotFrom(a, b, j + 1)

\* np.dot(a, b), for vectors of one length
Dot(a, b) == DotFrom(a, b, 1)

\* np.linalg.norm(a), squared
Norm2(a) == Dot(a, a)

ISqrt(x) == CHOOSE r \in 0..Scale : r * r <= x /\ x < (r + 1) * (r + 1)

\* cosine_similarity, for vectors of one length
cosine_similarity(a, b) ==
  IF Norm2(a) = 0 \/ Norm2(b) = 0 THEN 0
  ELSE LET d == Dot(a, b)
           q == ISqrt((d * d * Scale * Scale) \div (Norm2(a) * Norm2(b)))
       IN IF d < 0 THEN 0 - q ELSE q

RemoveAt(s, m) == SubSeq(s, 1, m - 1) \o SubSeq(s, m + 1, Len(s))

\* similarities.sort(reverse=True)
RECURSIVE SortDesc(_)
SortDesc(s) ==
  IF s = <<>> THEN <<>>
  ELSE LET m == CHOOSE k \in 1..Len(s) : \A j \in 1..Len(s) : s[k] >= s[j]
       IN <<s[m]>> \o SortDesc(RemoveAt(s, m))

\* _get_top_k_similarities
get_top_k_similarities(embedding, samples, k) ==
  LET similarities == [j \in 1..Len(samples) |-> cosine_similarity(embedding, samples[j])]
      sorted == SortDesc(similarities)
  IN SubSeq(sorted, 1, IF Len(sorted) < k THEN Len(sorted) ELSE k)

RECURSIVE SumPow(_, _)
SumPow(s, p) ==
  IF s = <<>> THEN 0
  ELSE (IF p = 2 THEN s[1] * s[1] ELSE s[1] * s[1] * s[1]) + SumPow(Tail(s), p)

\* _weighted_knn_score: sum(s * s**2) / sum(s**2)
weighted_knn_score(top_k_sims) ==
  IF top_k_sims = <<>> THEN 0
  ELSE IF SumPow(top_k_sims, 2) = 0 THEN 0
  ELSE SumPow(top_k_sims, 3) \div SumPow(top_k_sims, 2)

\* a calibration whose penalty for a small margin has become a bonus
calibrate_confidence_bonus(raw_score, margin, num_samples) ==
  LET confidence == raw_score * (IF margin * 100 < SIMILARITY_MARGIN * ScoreOne THEN 120 ELSE 100)
                              * (IF num_samples < 5 THEN 85 ELSE IF num_samples < 10 THEN 95 ELSE 100)
  IN IF confidence < 0 THEN 0 ELSE IF confidence > ConfOne THEN ConfOne ELSE confidence

\* a calibration that leaves out the final clamp
calibrate_confidence_unclamped(raw_score, margin, num_samples) ==
  raw_score * (IF margin * 100 < SIMILARITY_MARGIN * ScoreOne THEN 80 ELSE 100)
            * (IF num_samples < 5 THEN 85 ELSE IF num_samples < 10 THEN 95 ELSE 100)

\* _calibrate_confidence; raw_score and margin in units of 1/ScoreOne, the
\* result in units of 1/ConfOne
calibrate_confidence(raw_score, margin, num_samples) ==
  LET ambiguous == IF margin * 100 < SIMILARITY_MARGIN * ScoreOne THEN 80 ELSE 100
      limited == IF num_samples < 5 THEN 85 ELSE IF num_samples < 10 THEN 95 ELSE 100
      confidence == raw_score * ambiguous * limited
  IN IF confidence < 0 THEN 0 ELSE IF confidence > ConfOne THEN ConfOne ELSE confidence

\* a scoring loop that takes every intent with a sample
QualifyingAny(db) == {i \in DOMAIN db : Len(db[i]) >= 1}

\* a scoring loop that goes by the cached centroids
QualifyingByCentroid(db) == {i \in DOMAIN db : intent_centroids[i].n # 0}

\* intents that predict_intent scores (lines 180-182)
Qualifying(db) == {i \in DOMAIN db : Len(db[i]) >= MIN_SAMPLES_FOR_PREDICTION}

\* combined_score of one intent (lines 184-203)
combined_score(db, cents, embedding, intent) ==
  LET centroid_score == IF cents[intent].n # 0
                        THEN cosine_similarity(embedding, cents[intent].sum)
                        ELSE 0
      top_k == get_top_k_similarities(embedding, db[intent], K_NEIGHBORS)
      knn_score == weighted_knn_score(top_k)
      max_score == IF top_k # <<>> THEN top_k[1] ELSE 0
  IN 3 * centroid_score + 5 * knn_score + 2 * max_score

\* place of an intent in the dictionary
IndexOf(intent) == CHOOSE k \in 1..Len(INTENTS) : INTENTS[k] = intent

\* a ranking that sorts in ascending order
RECURSIVE SortedIntentsAscending(_, _)
SortedIntentsAscending(scores, S) ==
  IF S = {} THEN <<>>
  ELSE LET least == CHOOSE i \in S : \A j \in S \ {i} :
                      \/ scores[i] < scores[j]
                      \/ scores[i] = scores[j] /\ IndexOf(i) < IndexOf(j)
       IN <<least>> \o SortedIntentsAscending(scores, S \ {least})

\* sorted(scores.items(), key=lambda x: x[1], reverse=True): a stable sort,
\* equal scores stay in dictionary order
RECURSIVE SortedIntents(_, _)
SortedIntents(scores, S) ==
  IF S = {} THEN <<>>
  ELSE LET best == CHOOSE i \in S : \A j \in S \ {i} :
                     \/ scores[i] > scores[j]
                     \/ scores[i] = scores[j] /\ IndexOf(i) < IndexOf(j)
       IN <<best>> \o SortedIntents(scores, S \ {best})

\* predict_intent
predict_intent(db, cents, embedding) ==
  IF PredictRaises(db, cents, embedding)
  THEN [raised |-> TRUE, intent |-> "", confidence |-> 0, alternatives |-> <<>>]
  ELSE LET scores == [i \in Qualifying(db) |-> combined_score(db, cents, embedding, i)]
       IN IF DOMAIN scores = {}
          THEN [raised |-> FALSE, intent |-> "UNKNOWN", confidence |-> 0,
                alternatives |-> SubSeq(INTENTS, 1, 3)]
          ELSE LET sorted_intents == SortedIntents(scores, DOMAIN scores)
                   best_intent == sorted_intents[1]
                   best_score == scores[best_intent]
                   second_score == IF Len(sorted_intents) > 1 THEN scores[sorted_intents[2]] ELSE 0
                   margin == best_score - second_score
                   num_samples == Len(db[best_intent])
               IN [raised |-> FALSE, intent |-> best_intent,
                   confidence |-> calibrate_confidence(best_score, margin, num_samples),
                   alternatives |-> SubSeq(sorted_intents, 2,
                                           IF Len(sorted_intents) < 4 THEN Len(sorted_intents) ELSE 4)]

\* a call of predict_intent
CallPredictIntent(embedding) ==
  /\ LoopFree
  /\ call' = [fn |-> "predict_intent", arg |-> embedding,
              out |-> predict_intent(intent_db, intent_centroids, embedding)]
  /\ UNCHANGED <<storeVars, handlerVars, wr, ret, pre, save_failures, intent_embeddings>>

\* a call of a pure function: its name, arguments and result
PureCall(fn, arg, out) ==
  /\ LoopFree
  /\ call' = [fn |-> fn, arg |-> arg, out |-> out]
  /\ UNCHANGED <<storeVars, handlerVars, wr, ret, pre, save_failures, intent_embeddings>>

\* a call of _calibrate_confidence
CallCalibrateConfidence(raw_score, margin, num_samples) ==
  PureCall("_calibrate_confidence",
           [raw_score |-> raw_score, margin |-> margin, num_samples |-> num_samples],
           calibrate_confidence(raw_score, margin, num_samples))

\* ------------------------------------------------- the database-backed store
\* intent_embeddings_db.py over the table intent_embeddings of postgres_db.py.
\* A row is an intent with an embedding; every embedding has the dimension of
\* the column.  Each statement runs on the table as a whole.

\* a call of a function of intent_embeddings_db.py: what it returned and, for
\* clear_intent_db, the table it found
DbCall(fn, arg, out) ==
  /\ LoopFree
  /\ call' = [fn |-> fn, arg |-> arg, out |-> out,
              before |-> IF fn = "clear_intent_db" THEN intent_embeddings ELSE <<>>]
  /\ UNCHANGED <<storeVars, handlerVars, wr, ret, pre, save_failures>>

RowsOf(rows, intent) == SelectSeq(rows, LAMBDA r : r.intent = intent)

\* PostgresDB.get_intent_stats: the count of every intent that has a row
get_intent_stats(rows) ==
  [i \in {rows[k].intent : k \in 1..Len(rows)} |-> Len(RowsOf(rows, i))]

\* PostgresDB.add_embeddings_batch (add_embedding: a batch of one)
InsertRows(rows, intent, embeddings) ==
  rows \o List([k \in 1..Len(embeddings) |-> [intent |-> intent, embedding |-> embeddings[k]]])

\* PostgresDB.clear_intent_embeddings: the table after the DELETE and the
\* count the statement reports
clear_intent_embeddings(rows, intent) ==
  [rows |-> SelectSeq(rows, LAMBDA r : r.intent # intent),
   count |-> Len(RowsOf(rows, intent))]

\* add_embedding_db
CallAddEmbeddingDb(intent, embedding) ==
  /\ Len(intent_embeddings) + 1 <= MaxRows
  /\ intent_embeddings' = IF InIntents(intent)
                          THEN InsertRows(intent_embeddings, intent, <<embedding>>)
                          ELSE intent_embeddings
  /\ DbCall("add_embedding_db", [intent |-> intent, embeddings |-> <<embedding>>],
            InIntents(intent))

\* add_embeddings_batch_db
CallAddEmbeddingsBatchDb(intent, embeddings) ==
  /\ Len(intent_embeddings) + Len(embeddings) <= MaxRows
  /\ intent_embeddings' = IF InIntents(intent)
                          THEN InsertRows(intent_embeddings, intent, embeddings)
                          ELSE intent_embeddings
  /\ DbCall("add_embeddings_batch_db", [intent |-> intent, embeddings |-> embeddings],
            IF InIntents(intent) THEN Len(embeddings) ELSE 0)

\* clear_intent_db: `return count > 0`
CallClearIntentDb(intent) ==
  LET cleared == clear_intent_embeddings(intent_embeddings, intent)
  IN /\ intent_embeddings' = cleared.rows
     /\ DbCall("clear_intent_db", intent, cleared.count > 0)

\* 1 - (embedding <=> $1) of every row
Similarities(rows, embedding) ==
  List([k \in 1..Len(rows) |-> cosine_similarity(embedding, rows[k].embedding)])

\* the orders in which ORDER BY embedding <=> $1 can return the rows: by
\* falling similarity, rows of one similarity in any order
NeighborOrders(rows, embedding) ==
  LET similarity == Similarities(rows, embedding)
  IN {order \in [1..Len(rows) -> 1..Len(rows)] :
        /\ \A a, b \in 1..Len(rows) : a < b => order[a] # order[b]
        /\ \A a \in 1..(Len(rows) - 1) : similarity[order[a]] >= similarity[order[a + 1]]}

\* PostgresDB.find_similar_intents: the first k rows of one of these orders,
\* each with its similarity
find_similar_intents(rows, order, embedding, k) ==
  LET similarity == Similarities(rows, embedding)
  IN List([a \in 1..(IF Len(rows) < k THEN Len(rows) ELSE k) |->
             [intent |-> rows[order[a]].intent, similarity |-> similarity[order[a]]]])

\* the keys of a dictionary filled in the order of a list, without repeats
RECURSIVE KeysInOrder(_)
KeysInOrder(items) ==
  IF items = <<>> THEN <<>>
  ELSE LET rest == KeysInOrder(SubSeq(items, 1, Len(items) - 1))
           last == items[Len(items)].intent
       IN IF \E k \in 1..Len(rest) : rest[k] = last THEN rest ELSE Append(rest, last)

\* list.sort(key=lambda x: x[1], reverse=True) on (intent, score) pairs: a
\* stable sort
RECURSIVE SortByScore(_)
SortByScore(items) ==
  IF items = <<>> THEN <<>>
  ELSE LET m == First({k \in 1..Len(items) : \A j \in 1..Len(items) :
                         items[k].score >= items[j].score})
       IN <<items[m]>> \o SortByScore(RemoveAt(items, m))

RECURSIVE SumOf(_)
SumOf(s) == IF s = <<>> THEN 0 ELSE s[1] + SumOf(Tail(s))

\* lines 100-112 of predict_intent_db: the combined score of the similarities
\* of one intent, in units of 1/ScoreOne
combined_db(similarities) ==
  LET top == SubSeq(similarities, 1,
                    IF Len(similarities) < K_NEIGHBORS THEN Len(similarities) ELSE K_NEIGHBORS)
      knn_score == weighted_knn_score(top)
      max_score == similarities[1]
  IN (3 * SumOf(top)) \div Len(top) + 5 * knn_score + 2 * max_score

UnknownDb ==
  [intent |-> "UNKNOWN", confidence |-> 0, alternatives |-> SubSeq(INTENTS, 1, 3),
   top_predictions |-> <<[intent |-> "UNKNOWN", score |-> 0]>>]

\* line 71: the intents with enough samples
ValidIntents(stats) == {i \in DOMAIN stats : stats[i] >= MIN_SAMPLES_FOR_PREDICTION}

\* lines 84-92: the similarities of the neighbors of every intent among them,
\* in the order of the neighbors
GroupScores(neighbors) ==
  [i \in {neighbors[k].intent : k \in 1..Len(neighbors)} |->
     LET of == SelectSeq(neighbors, LAMBDA n : n.intent = i)
     IN List([k \in 1..Len(of) |-> of[k].similarity])]

\* lines 95-113: the combined score of every intent with enough neighbors, in
\* the order in which the intents first appear
CombinedScores(neighbors, intent_scores) ==
  LET scored == SelectSeq(KeysInOrder(neighbors),
                          LAMBDA i : Len(intent_scores[i]) >= MIN_SAMPLES_FOR_PREDICTION)
  IN List([k \in 1..Len(scored) |->
             [intent |-> scored[k], score |-> combined_db(intent_scores[scored[k]])]])

\* lines 119-131: every intent calibrated with its margin to the next one,
\* then sorted again by the calibrated confidence
CalibratedPredictions(sorted_intents, stats) ==
  SortByScore(List([k \in 1..Len(sorted_intents) |->
    LET raw_score == sorted_intents[k].score
        next_score == IF k + 1 <= Len(sorted_intents) THEN sorted_intents[k + 1].score
                      ELSE 0
    IN [intent |-> sorted_intents[k].intent,
        score |-> calibrate_confidence(raw_score, raw_score - next_score,
                                       stats[sorted_intents[k].intent])]]))

\* lines 133-143: the best of the calibrated predictions and the two after it
PredictionOf(calibrated_predictions) ==
  LET top_predictions ==
        SubSeq(calibrated_predictions, 1,
               IF Len(calibrated_predictions) < 3 THEN Len(calibrated_predictions) ELSE 3)
  IN [intent |-> top_predictions[1].intent,
      confidence |-> top_predictions[1].score,
      alternatives |-> List([k \in 1..(Len(top_predictions) - 1) |->
                               top_predictions[k + 1].intent]),
      top_predictions |-> top_predictions]

\* lines 80-143 of predict_intent_db, from the neighbors found
PredictFromNeighbors(stats, neighbors) ==
  LET combined_scores == CombinedScores(neighbors, GroupScores(neighbors))
  IN IF neighbors = <<>> \/ combined_scores = <<>> THEN UnknownDb
     ELSE PredictionOf(CalibratedPredictions(SortByScore(combined_scores), stats))

\* predict_intent_db, on the table `rows` returned in the order `order`
predict_intent_db(rows, order, embedding) ==
  LET stats == get_intent_stats(rows)
  IN IF ValidIntents(stats) = {} THEN UnknownDb
     ELSE PredictFromNeighbors(stats,
            find_similar_intents(rows, order, embedding,
                                 K_NEIGHBORS * Cardinality(ValidIntents(stats))))

\* a call of predict_intent_db
CallPredictIntentDb(embedding) ==
  /\ \E order \in NeighborOrders(intent_embeddings, embedding) :
       DbCall("predict_intent_db", embedding,
              predict_intent_db(intent_embeddings, order, embedding))
  /\ UNCHANGED intent_embeddings

\* --------------------------------------------------------------- intent_logic
\* settings.CONFIDENCE_CONFIRMED and settings.CONFIDENCE_NEEDS_CONFIRMATION,
\* in hundredths
CONFIDENCE_CONFIRMED == 75
CONFIDENCE_NEEDS_CONFIRMATION == 40

UI_OPTIONS ==
  [HELP |-> <<"Confirm Help", "Cancel">>,
   EMERGENCY |-> <<"Cancel Emergency">>,
   WATER |-> <<"Confirm Water", "Cancel">>,
   YES |-> <<"OK">>,
   NO |-> <<"OK">>,
   PAIN |-> <<"Confirm Pain", "Where?", "Cancel">>,
   BATHROOM |-> <<"Confirm Bathroom", "Cancel">>,
   TIRED |-> <<"Confirm Rest", "Cancel">>,
   COLD |-> <<"Confirm Cold", "Cancel">>,
   HOT |-> <<"Confirm Hot", "Cancel">>,
   UNKNOWN |-> <<"Repeat", "Cancel">>]

\* a decision that triggers the alert from 0.8 on
determine_status_and_action_from(intent, confidence) ==
  IF intent = "EMERGENCY" /\ confidence >= 80 THEN <<"auto_triggered", "trigger_alert">>
  ELSE IF confidence >= CONFIDENCE_CONFIRMED
  THEN IF intent \in {"YES", "NO"} THEN <<"confirmed", "resolve_confirmation">>
       ELSE <<"confirmed", "await_user_confirmation">>
  ELSE IF confidence >= CONFIDENCE_NEEDS_CONFIRMATION THEN <<"needs_confirmation", "show_options">>
  ELSE <<"uncertain", "ask_repeat">>

\* a decision that asks for confirmation from 0.3 on
determine_status_and_action_from_03(intent, confidence) ==
  IF intent = "EMERGENCY" /\ confidence > 80 THEN <<"auto_triggered", "trigger_alert">>
  ELSE IF confidence >= CONFIDENCE_CONFIRMED
  THEN IF intent \in {"YES", "NO"} THEN <<"confirmed", "resolve_confirmation">>
       ELSE <<"confirmed", "await_user_confirmation">>
  ELSE IF confidence >= 30 THEN <<"needs_confirmation", "show_options">>
  ELSE <<"uncertain", "ask_repeat">>

\* determine_status_and_action; confidence in hundredths
determine_status_and_action(intent, confidence) ==
  IF intent = "EMERGENCY" /\ confidence > 80 THEN <<"auto_triggered", "trigger_alert">>
  ELSE IF confidence >= CONFIDENCE_CONFIRMED
  THEN IF intent \in {"YES", "NO"} THEN <<"confirmed", "resolve_confirmation">>
       ELSE <<"confirmed", "await_user_confirmation">>
  ELSE IF confidence >= CONFIDENCE_NEEDS_CONFIRMATION THEN <<"needs_confirmation", "show_options">>
  ELSE <<"uncertain", "ask_repeat">>

\* a lookup that goes by the intent alone
get_ui_options_by_intent(intent, status) ==
  IF intent \in DOMAIN UI_OPTIONS THEN UI_OPTIONS[intent] ELSE <<"OK", "Cancel">>

\* get_ui_options
get_ui_options(intent, status) ==
  IF status = "uncertain"
  THEN IF "UNKNOWN" \in DOMAIN UI_OPTIONS THEN UI_OPTIONS["UNKNOWN"] ELSE <<"Repeat", "Cancel">>
  ELSE IF intent \in DOMAIN UI_OPTIONS THEN UI_OPTIONS[intent] ELSE <<"OK", "Cancel">>

CallDetermineStatusAndAction(intent, confidence) ==
  PureCall("determine_status_and_action", [intent |-> intent, confidence |-> confidence],
           determine_status_and_action(intent, confidence))

CallGetUiOptions(intent, status) ==
  PureCall("get_ui_options", [intent |-> intent, status |-> status],
           get_ui_options(intent, status))

\* ----------------------------------------------------------- the text matcher
\* A string is the sequence of its characters.  A confidence of the text
\* matcher is kept in thousandths: the phonetic score 0.75 * 0.9 is 675.
TextOne == 1000

UPPERCASE ==
  <<"A", "B", "C", "D", "E", "F", "G", "H", "I", "J", "K", "L", "M",
    "N", "O", "P", "Q", "R", "S", "T", "U", "V", "W", "X", "Y", "Z">>

LOWERCASE ==
  <<"a", "b", "c", "d", "e", "f", "g", "h", "i", "j", "k", "l", "m",
    "n", "o", "p", "q", "r", "s", "t", "u", "v", "w", "x", "y", "z">>

DIGITS == {"0", "1", "2", "3", "4", "5", "6", "7", "8", "9"}

WHITESPACE == {" "}

ToLower ==
  [c \in {UPPERCASE[i] : i \in 1..26} |->
     LOWERCASE[CHOOSE i \in 1..26 : UPPERCASE[i] = c]]

\* str.lower
lower(s) ==
  List([i \in 1..Len(s) |-> IF s[i] \in DOMAIN ToLower THEN ToLower[s[i]] ELSE s[i]])

\* str.strip
strip(s) ==
  LET inked == {i \in 1..Len(s) : s[i] \notin WHITESPACE}
  IN IF inked = {} THEN <<>>
     ELSE SubSeq(s, CHOOSE i \in inked : \A j \in inked : i <= j,
                    CHOOSE i \in inked : \A j \in inked : i >= j)

RECURSIVE SplitFrom(_, _, _, _)
SplitFrom(s, i, word, words) ==
  IF i > Len(s) THEN IF word = <<>> THEN words ELSE Append(words, word)
  ELSE IF s[i] \in WHITESPACE
  THEN SplitFrom(s, i + 1, <<>>, IF word = <<>> THEN words ELSE Append(words, word))
  ELSE SplitFrom(s, i + 1, Append(word, s[i]), words)

\* str.split(): the maximal runs without whitespace
split(s) == SplitFrom(s, 1, <<>>, <<>>)

\* needle in haystack
Contains(haystack, needle) ==
  \E i \in 1..(Len(haystack) - Len(needle) + 1) :
     SubSeq(haystack, i, i + Len(needle) - 1) = needle

\* the table `encoding` of _aphasia_soundex, with its default '0'
encoding(char) ==
  CASE char \in {"b", "f", "p", "v"} -> "1"
    [] char \in {"c", "g", "j", "k", "q", "s", "x", "z"} -> "2"
    [] char \in {"d", "t", "n"} -> "3"
    [] char = "l" -> "4"
    [] char = "m" -> "5"
    [] char = "r" -> "6"
    [] char \in {"w", "h"} -> "7"
    [] char = "y" -> "8"
    [] OTHER -> "0"

RECURSIVE SoundexFrom(_, _, _, _)
SoundexFrom(word, i, prev, code) ==
  IF i > Len(word) THEN code
  ELSE LET curr == encoding(word[i])
       IN SoundexFrom(word, i + 1, curr,
                      IF curr # "0" /\ curr # prev THEN Append(code, curr) ELSE code)

\* code[:4].ljust(4, '0')
Pad4(code) == List([i \in 1..4 |-> IF i <= Len(code) THEN code[i] ELSE "0"])

\* _aphasia_soundex
aphasia_soundex(word) ==
  IF word = <<>> THEN <<>>
  ELSE LET w == strip(lower(word))
       IN IF w = <<>> THEN Pad4(<<>>)
          ELSE Pad4(SoundexFrom(w, 2, encoding(w[1]), <<w[1]>>))

\* lines 82-87 of _phonetic_distance: the score of two codes, in thousandths
CodeDistance(code1, code2) ==
  LET shorter == IF Len(code1) < Len(code2) THEN Len(code1) ELSE Len(code2)
  IN IF code1 = code2 THEN TextOne
     ELSE (Cardinality({i \in 1..shorter : code1[i] = code2[i]}) * TextOne) \div 4

\* _phonetic_distance
phonetic_distance(word1, word2) == CodeDistance(aphasia_soundex(word1), aphasia_soundex(word2))

\* INTENT_PHONETIC_MAP, in the order of the dictionary
INTENT_PHONETIC_MAP ==
  <<
   [intent |-> "HELP",
    canonical |-> <<
      <<"h", "e", "l", "p">>, <<"h", "e", "l", "p", " ", "m", "e">>,
      <<"n", "e", "e", "d", " ", "h", "e", "l", "p">>,
      <<"a", "s", "s", "i", "s", "t">>, <<"p", "l", "e", "a", "s", "e">>>>,
    aphasia_variants |-> <<
      <<"h", "e", "p">>, <<"e", "l", "p">>, <<"h", "e", "l">>, <<"h", "e">>,
      <<"e", "p">>, <<"h", "u", "p">>, <<"h", "a", "l", "p">>,
      <<"h", "u", "l", "p">>, <<"h", "e", "h", "p">>,
      <<"h", "e", "h", "l", "p">>, <<"p", "w", "e", "a", "s", "e">>,
      <<"p", "e", "a", "s", "e">>, <<"p", "e", "e", "s">>>>],
   [intent |-> "WATER",
    canonical |-> <<
      <<"w", "a", "t", "e", "r">>, <<"t", "h", "i", "r", "s", "t", "y">>,
      <<"d", "r", "i", "n", "k">>,
      <<"w", "a", "n", "t", " ", "w", "a", "t", "e", "r">>>>,
    aphasia_variants |-> <<
      <<"w", "a", "w", "a">>, <<"w", "a", "-", "w", "a">>,
      <<"w", "a", "t", "a">>, <<"w", "a", "h">>, <<"w", "a", "w">>,
      <<"t", "h", "i", "r">>, <<"t", "h", "i", "r", "s">>,
      <<"d", "i", "n", "k">>, <<"d", "w", "i", "n", "k">>,
      <<"w", "o", "t", "t", "e", "r">>, <<"w", "a", "d", "e", "r">>,
      <<"w", "o", "d", "d", "e", "r">>>>],
   [intent |-> "YES",
    canonical |-> <<
      <<"y", "e", "s">>, <<"y", "e", "a", "h">>, <<"y", "e", "p">>,
      <<"o", "k", "a", "y">>, <<"o", "k">>, <<"s", "u", "r", "e">>>>,
    aphasia_variants |-> <<
      <<"y", "a">>, <<"y", "e">>, <<"y", "a", "h">>, <<"y", "e", "h">>,
      <<"u", "h", " ", "h", "u", "h">>, <<"m", "m", "h", "m", "m">>,
      <<"y", "e", "s", "h">>, <<"y", "e", "t", "h">>, <<"k", "a", "y">>,
      <<"o", "h", "a", "y">>>>],
   [intent |-> "NO",
    canonical |-> <<
      <<"n", "o">>, <<"n", "o", "p", "e">>, <<"s", "t", "o", "p">>,
      <<"d", "o", "n", "'", "t">>, <<"w", "a", "i", "t">>>>,
    aphasia_variants |-> <<
      <<"n", "a">>, <<"n", "a", "h">>, <<"n", "u", "h">>,
      <<"u", "h", " ", "u", "h">>, <<"m", "m", " ", "m", "m">>,
      <<"n", "o", "h">>, <<"n", "a", "w">>, <<"d", "o", "h">>,
      <<"t", "o", "p">>, <<"s", "o", "p">>>>],
   [intent |-> "PAIN",
    canonical |-> <<
      <<"p", "a", "i", "n">>, <<"h", "u", "r", "t">>,
      <<"h", "u", "r", "t", "s">>, <<"o", "w">>, <<"o", "u", "c", "h">>,
      <<"s", "o", "r", "e">>>>,
    aphasia_variants |-> <<
      <<"p", "a", "n", "e">>, <<"p", "a", "i">>, <<"p", "a", "h">>,
      <<"p", "a">>, <<"h", "u", "t">>, <<"h", "u", "h">>, <<"o", "w", "w">>,
      <<"o", "u", "w">>, <<"a", "h">>, <<"a", "a", "h">>, <<"s", "o", "r">>,
      <<"s", "o", "a", "h">>>>],
   [intent |-> "EMERGENCY",
    canonical |-> <<
      <<"e", "m", "e", "r", "g", "e", "n", "c", "y">>,
      <<"u", "r", "g", "e", "n", "t">>,
      <<"h", "e", "l", "p", " ", "n", "o", "w">>,
      <<"d", "o", "c", "t", "o", "r">>, <<"n", "u", "r", "s", "e">>>>,
    aphasia_variants |-> <<
      <<"e", "m", "e", "r", "g", "e", "e">>,
      <<"e", "m", "e", "r", "g", "u", "h">>,
      <<"m", "e", "r", "g", "e", "n", "c", "y">>,
      <<"u", "r", "g", "e", "n">>, <<"d", "o", "c", "t">>,
      <<"d", "o", "c", "t", "a">>, <<"n", "u", "r", "s">>,
      <<"n", "u", "r", "s", "s">>, <<"q", "u", "i", "c", "k">>,
      <<"q", "u", "i", "k">>, <<"n", "o", "w">>, <<"n", "a", "o">>>>],
   [intent |-> "BATHROOM",
    canonical |-> <<
      <<"b", "a", "t", "h", "r", "o", "o", "m">>,
      <<"t", "o", "i", "l", "e", "t">>, <<"p", "o", "t", "t", "y">>,
      <<"p", "e", "e">>, <<"r", "e", "s", "t", "r", "o", "o", "m">>>>,
    aphasia_variants |-> <<
      <<"b", "a", "t", "h", "o", "o", "m">>,
      <<"b", "a", "f", "r", "o", "o", "m">>,
      <<"b", "a", "f", "f", "o", "o", "m">>, <<"t", "o", "i", "l", "e">>,
      <<"t", "o", "i", "l", "e", "h">>, <<"p", "o", "t", "t">>,
      <<"p", "e", "e", " ", "p", "e", "e">>, <<"w", "e", "e">>,
      <<"w", "e", "e", "w", "e", "e">>>>],
   [intent |-> "TIRED",
    canonical |-> <<
      <<"t", "i", "r", "e", "d">>, <<"s", "l", "e", "e", "p", "y">>,
      <<"s", "l", "e", "e", "p">>, <<"r", "e", "s", "t">>,
      <<"e", "x", "h", "a", "u", "s", "t", "e", "d">>>>,
    aphasia_variants |-> <<
      <<"t", "i", "r", "e">>, <<"t", "i", "r">>, <<"s", "e", "e", "p", "y">>,
      <<"s", "e", "e", "p">>, <<"r", "e", "s">>,
      <<"n", "a", "p", "n", "a", "p">>>>],
   [intent |-> "COLD",
    canonical |-> <<
      <<"c", "o", "l", "d">>, <<"f", "r", "e", "e", "z", "i", "n", "g">>,
      <<"c", "h", "i", "l", "l", "y">>, <<"b", "l", "a", "n", "k", "e", "t">>>>,
    aphasia_variants |-> <<
      <<"c", "o", "l">>, <<"c", "o", "h">>, <<"c", "o", "w", "d">>,
      <<"f", "r", "e", "e", "z">>, <<"b", "l", "a", "n", "k", "i", "e">>,
      <<"b", "w", "a", "n", "k", "e", "t">>>>],
   [intent |-> "HOT",
    canonical |-> <<
      <<"h", "o", "t">>, <<"w", "a", "r", "m">>,
      <<"s", "w", "e", "a", "t", "i", "n", "g">>, <<"f", "a", "n">>>>,
    aphasia_variants |-> <<
      <<"h", "a", "h">>, <<"h", "o", "h">>, <<"w", "a", "m">>,
      <<"s", "w", "e", "a", "t">>, <<"f", "a", "h", "n">>>>]
  >>

\* INTENT_KEYWORDS as the list of its (key, intent) items, in the order of the
\* dictionary
INTENT_KEYWORDS ==
  <<
   <<<<"h", "e", "l", "p">>, "HELP">>,
   <<<<"p", "l", "e", "a", "s", "e">>, "HELP">>,
   <<<<"n", "e", "e", "d">>, "HELP">>,
   <<<<"a", "s", "s", "i", "s", "t">>, "HELP">>,
   <<<<"a", "s", "s", "i", "s", "t", "a", "n", "c", "e">>, "HELP">>,
   <<<<"h", "e", "l", "p", "m", "e">>, "HELP">>,
   <<<<"h", "e", "l", "p", " ", "m", "e">>, "HELP">>,
   <<<<"i", " ", "n", "e", "e", "d">>, "HELP">>,
   <<<<"c", "a", "l", "l">>, "HELP">>,
   <<<<"s", "o", "m", "e", "o", "n", "e">>, "HELP">>,
   <<<<"n", "u", "r", "s", "e">>, "HELP">>,
   <<<<"d", "o", "c", "t", "o", "r">>, "HELP">>,
   <<<<"e", "m", "e", "r", "g", "e", "n", "c", "y">>, "EMERGENCY">>,
   <<<<"u", "r", "g", "e", "n", "t">>, "EMERGENCY">>,
   <<<<"d", "a", "n", "g", "e", "r">>, "EMERGENCY">>,
   <<<<"f", "a", "l", "l">>, "EMERGENCY">>,
   <<<<"f", "a", "l", "l", "e", "n">>, "EMERGENCY">>,
   <<<<"f", "e", "l", "l">>, "EMERGENCY">>,
   <<<<"c", "h", "e", "s", "t">>, "EMERGENCY">>,
   <<<<"b", "r", "e", "a", "t", "h", "e">>, "EMERGENCY">>,
   <<<<"c", "a", "n", "t", " ", "b", "r", "e", "a", "t", "h", "e">>, "EMERGENCY">>,
   <<<<"c", "a", "n", "'", "t", " ", "b", "r", "e", "a", "t", "h", "e">>, "EMERGENCY">>,
   <<<<"d", "y", "i", "n", "g">>, "EMERGENCY">>,
   <<<<"s", "e", "v", "e", "r", "e">>, "EMERGENCY">>,
   <<<<"w", "a", "t", "e", "r">>, "WATER">>,
   <<<<"t", "h", "i", "r", "s", "t", "y">>, "WATER">>,
   <<<<"d", "r", "i", "n", "k">>, "WATER">>,
   <<<<"t", "h", "i", "r", "s", "t">>, "WATER">>,
   <<<<"b", "e", "v", "e", "r", "a", "g", "e">>, "WATER">>,
   <<<<"j", "u", "i", "c", "e">>, "WATER">>,
   <<<<"t", "e", "a">>, "WATER">>,
   <<<<"c", "o", "f", "f", "e", "e">>, "WATER">>,
   <<<<"y", "e", "s">>, "YES">>,
   <<<<"y", "e", "a", "h">>, "YES">>,
   <<<<"y", "e", "p">>, "YES">>,
   <<<<"y", "u", "p">>, "YES">>,
   <<<<"o", "k", "a", "y">>, "YES">>,
   <<<<"o", "k">>, "YES">>,
   <<<<"s", "u", "r", "e">>, "YES">>,
   <<<<"c", "o", "r", "r", "e", "c", "t">>, "YES">>,
   <<<<"r", "i", "g", "h", "t">>, "YES">>,
   <<<<"a", "f", "f", "i", "r", "m", "a", "t", "i", "v", "e">>, "YES">>,
   <<<<"n", "o">>, "NO">>,
   <<<<"n", "o", "p", "e">>, "NO">>,
   <<<<"n", "a", "h">>, "NO">>,
   <<<<"c", "a", "n", "c", "e", "l">>, "NO">>,
   <<<<"s", "t", "o", "p">>, "NO">>,
   <<<<"d", "o", "n", "t">>, "NO">>,
   <<<<"d", "o", "n", "'", "t">>, "NO">>,
   <<<<"n", "e", "g", "a", "t", "i", "v", "e">>, "NO">>,
   <<<<"c", "a", "r", "e">>, "HELP">>,
   <<<<"c", "a", "r", "e", "g", "i", "v", "e", "r">>, "HELP">>,
   <<<<"p", "a", "i", "n">>, "PAIN">>,
   <<<<"h", "u", "r", "t">>, "PAIN">>,
   <<<<"h", "u", "r", "t", "s">>, "PAIN">>,
   <<<<"h", "u", "r", "t", "i", "n", "g">>, "PAIN">>,
   <<<<"a", "c", "h", "e">>, "PAIN">>,
   <<<<"s", "o", "r", "e">>, "PAIN">>,
   <<<<"o", "u", "c", "h">>, "PAIN">>,
   <<<<"o", "w">>, "PAIN">>,
   <<<<"b", "a", "t", "h", "r", "o", "o", "m">>, "BATHROOM">>,
   <<<<"t", "o", "i", "l", "e", "t">>, "BATHROOM">>,
   <<<<"p", "o", "t", "t", "y">>, "BATHROOM">>,
   <<<<"p", "e", "e">>, "BATHROOM">>,
   <<<<"r", "e", "s", "t", "r", "o", "o", "m">>, "BATHROOM">>,
   <<<<"t", "i", "r", "e", "d">>, "TIRED">>,
   <<<<"s", "l", "e", "e", "p", "y">>, "TIRED">>,
   <<<<"s", "l", "e", "e", "p">>, "TIRED">>,
   <<<<"r", "e", "s", "t">>, "TIRED">>,
   <<<<"n", "a", "p">>, "TIRED">>,
   <<<<"e", "x", "h", "a", "u", "s", "t", "e", "d">>, "TIRED">>,
   <<<<"b", "e", "d">>, "TIRED">>,
   <<<<"c", "o", "l", "d">>, "COLD">>,
   <<<<"f", "r", "e", "e", "z", "i", "n", "g">>, "COLD">>,
   <<<<"c", "h", "i", "l", "l", "y">>, "COLD">>,
   <<<<"b", "l", "a", "n", "k", "e", "t">>, "COLD">>,
   <<<<"h", "o", "t">>, "HOT">>,
   <<<<"w", "a", "r", "m">>, "HOT">>,
   <<<<"s", "w", "e", "a", "t", "i", "n", "g">>, "HOT">>,
   <<<<"s", "w", "e", "a", "t", "y">>, "HOT">>,
   <<<<"f", "a", "n">>, "HOT">>
  >>

\* FUZZY_PATTERNS: a pattern is a list of parts that '.*' separates; a part
\* is a choice of alternatives between two word boundaries (between '^' and
\* '$' when anchored); an alternative is a list of literal pieces that '\s*'
\* separates, its last character repeatable when it ends in '+'
FUZZY_PATTERNS ==
  <<
   [anchored |-> FALSE, intent |-> "HELP", confidence |-> 700,
    parts |-> <<
      {[pieces |-> <<<<"a", "l", "p", "e">>>>, plus |-> FALSE],
       [pieces |-> <<<<"u", "l", "p", "e">>>>, plus |-> FALSE],
       [pieces |-> <<<<"e", "l", "p", "e">>>>, plus |-> FALSE],
       [pieces |-> <<<<"a", "l", "p">>>>, plus |-> FALSE],
       [pieces |-> <<<<"u", "l", "p">>>>, plus |-> FALSE],
       [pieces |-> <<<<"e", "l", "p">>>>, plus |-> FALSE]}>>],
   [anchored |-> FALSE, intent |-> "HELP", confidence |-> 650,
    parts |-> <<
      {[pieces |-> <<<<"i">>, <<"p", "e">>>>, plus |-> FALSE],
       [pieces |-> <<<<"i", "l">>, <<"p", "e">>>>, plus |-> FALSE],
       [pieces |-> <<<<"y", "o", "u">>, <<"p", "e">>>>, plus |-> FALSE],
       [pieces |-> <<<<"y", "o">>, <<"p", "e">>>>, plus |-> FALSE]}>>],
   [anchored |-> FALSE, intent |-> "HELP", confidence |-> 600,
    parts |-> <<
      {[pieces |-> <<<<"p", "e">>>>, plus |-> FALSE]},
      {[pieces |-> <<<<"p", "e">>>>, plus |-> FALSE]},
      {[pieces |-> <<<<"p", "e">>>>, plus |-> FALSE]}>>],
   [anchored |-> FALSE, intent |-> "HELP", confidence |-> 850,
    parts |-> <<
      {[pieces |-> <<<<"h", "e", "l", "p">>>>, plus |-> FALSE],
       [pieces |-> <<<<"e", "l", "p">>>>, plus |-> FALSE],
       [pieces |-> <<<<"h", "a", "l", "p">>>>, plus |-> FALSE],
       [pieces |-> <<<<"h", "e", "p">>>>, plus |-> FALSE]}>>],
   [anchored |-> FALSE, intent |-> "HELP", confidence |-> 800,
    parts |-> <<
      {[pieces |-> <<<<"c", "a", "r", "e">>>>, plus |-> FALSE]}>>],
   [anchored |-> FALSE, intent |-> "WATER", confidence |-> 800,
    parts |-> <<
      {[pieces |-> <<<<"w", "a", "t", "e", "r">>>>, plus |-> FALSE],
       [pieces |-> <<<<"w", "a", "t", "a">>>>, plus |-> FALSE],
       [pieces |-> <<<<"w", "a", "t", "e">>>>, plus |-> FALSE],
       [pieces |-> <<<<"w", "a", "t">>>>, plus |-> FALSE],
       [pieces |-> <<<<"w", "a", "w", "a">>>>, plus |-> FALSE]}>>],
   [anchored |-> FALSE, intent |-> "WATER", confidence |-> 750,
    parts |-> <<
      {[pieces |-> <<<<"t", "h", "i", "r", "s", "t", "y">>>>, plus |-> FALSE],
       [pieces |-> <<<<"t", "h", "i", "r", "s", "t">>>>, plus |-> FALSE],
       [pieces |-> <<<<"t", "h", "i", "r", "s">>>>, plus |-> FALSE]}>>],
   [anchored |-> FALSE, intent |-> "EMERGENCY", confidence |-> 850,
    parts |-> <<
      {[pieces |-> <<<<"e", "m", "e", "r", "g", "e", "n", "c", "y">>>>, plus |-> FALSE],
       [pieces |-> <<<<"e", "m", "e", "r", "g", "e", "n", "c">>>>, plus |-> FALSE],
       [pieces |-> <<<<"e", "m", "e", "r", "g", "e", "n">>>>, plus |-> FALSE],
       [pieces |-> <<<<"m", "e", "r", "g", "e", "n", "c", "y">>>>, plus |-> FALSE]}>>],
   [anchored |-> FALSE, intent |-> "EMERGENCY", confidence |-> 800,
    parts |-> <<
      {[pieces |-> <<<<"u", "r", "g", "e", "n", "t">>>>, plus |-> FALSE],
       [pieces |-> <<<<"u", "r", "g", "e", "n">>>>, plus |-> FALSE]}>>],
   [anchored |-> FALSE, intent |-> "PAIN", confidence |-> 750,
    parts |-> <<
      {[pieces |-> <<<<"p", "a", "i", "n">>>>, plus |-> FALSE],
       [pieces |-> <<<<"p", "a", "n", "e">>>>, plus |-> FALSE],
       [pieces |-> <<<<"p", "a", "i">>>>, plus |-> FALSE],
       [pieces |-> <<<<"p", "a", "h">>>>, plus |-> FALSE]}>>],
   [anchored |-> FALSE, intent |-> "PAIN", confidence |-> 750,
    parts |-> <<
      {[pieces |-> <<<<"h", "u", "r", "t">>>>, plus |-> FALSE],
       [pieces |-> <<<<"h", "u", "r", "t", "s">>>>, plus |-> FALSE],
       [pieces |-> <<<<"h", "o", "r", "t">>>>, plus |-> FALSE],
       [pieces |-> <<<<"h", "u", "t">>>>, plus |-> FALSE]}>>],
   [anchored |-> FALSE, intent |-> "PAIN", confidence |-> 650,
    parts |-> <<
      {[pieces |-> <<<<"o", "w">>>>, plus |-> TRUE],
       [pieces |-> <<<<"o", "u", "c", "h">>>>, plus |-> FALSE],
       [pieces |-> <<<<"a", "h">>>>, plus |-> TRUE]}>>],
   [anchored |-> TRUE, intent |-> "YES", confidence |-> 850,
    parts |-> <<
      {[pieces |-> <<<<"y", "e", "s">>>>, plus |-> FALSE],
       [pieces |-> <<<<"y", "e", "a", "h">>>>, plus |-> FALSE],
       [pieces |-> <<<<"y", "e", "p">>>>, plus |-> FALSE],
       [pieces |-> <<<<"y", "u", "p">>>>, plus |-> FALSE],
       [pieces |-> <<<<"y", "a">>>>, plus |-> FALSE]}>>],
   [anchored |-> FALSE, intent |-> "YES", confidence |-> 750,
    parts |-> <<
      {[pieces |-> <<<<"y", "e", "s">>>>, plus |-> FALSE],
       [pieces |-> <<<<"y", "e", "a", "h">>>>, plus |-> FALSE]}>>],
   [anchored |-> TRUE, intent |-> "YES", confidence |-> 800,
    parts |-> <<
      {[pieces |-> <<<<"o", "k">>>>, plus |-> FALSE],
       [pieces |-> <<<<"o", "k", "a", "y">>>>, plus |-> FALSE],
       [pieces |-> <<<<"k", "a", "y">>>>, plus |-> FALSE]}>>],
   [anchored |-> FALSE, intent |-> "YES", confidence |-> 700,
    parts |-> <<
      {[pieces |-> <<<<"u", "h">>, <<"h", "u", "h">>>>, plus |-> FALSE],
       [pieces |-> <<<<"m", "m">>, <<"h", "m", "m">>>>, plus |-> FALSE]}>>],
   [anchored |-> TRUE, intent |-> "NO", confidence |-> 850,
    parts |-> <<
      {[pieces |-> <<<<"n", "o">>>>, plus |-> FALSE],
       [pieces |-> <<<<"n", "o", "p", "e">>>>, plus |-> FALSE],
       [pieces |-> <<<<"n", "a", "h">>>>, plus |-> FALSE]}>>],
   [anchored |-> FALSE, intent |-> "NO", confidence |-> 750,
    parts |-> <<
      {[pieces |-> <<<<"n", "o">>>>, plus |-> FALSE],
       [pieces |-> <<<<"n", "o", "p", "e">>>>, plus |-> FALSE]}>>],
   [anchored |-> FALSE, intent |-> "NO", confidence |-> 700,
    parts |-> <<
      {[pieces |-> <<<<"u", "h">>, <<"u", "h">>>>, plus |-> FALSE],
       [pieces |-> <<<<"m", "m">>, <<"m", "m">>>>, plus |-> FALSE]}>>],
   [anchored |-> FALSE, intent |-> "BATHROOM", confidence |-> 800,
    parts |-> <<
      {[pieces |-> <<<<"b", "a", "t", "h", "r", "o", "o", "m">>>>, plus |-> FALSE],
       [pieces |-> <<<<"b", "a", "t", "h", "o", "o", "m">>>>, plus |-> FALSE],
       [pieces |-> <<<<"b", "a", "f", "r", "o", "o", "m">>>>, plus |-> FALSE]}>>],
   [anchored |-> FALSE, intent |-> "BATHROOM", confidence |-> 800,
    parts |-> <<
      {[pieces |-> <<<<"t", "o", "i", "l", "e", "t">>>>, plus |-> FALSE],
       [pieces |-> <<<<"t", "o", "i", "l", "e">>>>, plus |-> FALSE]}>>],
   [anchored |-> FALSE, intent |-> "BATHROOM", confidence |-> 750,
    parts |-> <<
      {[pieces |-> <<<<"p", "o", "t", "t", "y">>>>, plus |-> FALSE],
       [pieces |-> <<<<"p", "o", "t", "t">>>>, plus |-> FALSE],
       [pieces |-> <<<<"p", "e", "e">>>>, plus |-> FALSE],
       [pieces |-> <<<<"w", "e", "e">>>>, plus |-> FALSE]}>>],
   [anchored |-> FALSE, intent |-> "TIRED", confidence |-> 800,
    parts |-> <<
      {[pieces |-> <<<<"t", "i", "r", "e", "d">>>>, plus |-> FALSE],
       [pieces |-> <<<<"t", "i", "r", "e">>>>, plus |-> FALSE],
       [pieces |-> <<<<"t", "i", "r">>>>, plus |-> FALSE]}>>],
   [anchored |-> FALSE, intent |-> "TIRED", confidence |-> 750,
    parts |-> <<
      {[pieces |-> <<<<"s", "l", "e", "e", "p">>>>, plus |-> FALSE],
       [pieces |-> <<<<"s", "l", "e", "e", "p", "y">>>>, plus |-> FALSE],
       [pieces |-> <<<<"s", "e", "e", "p">>>>, plus |-> FALSE]}>>],
   [anchored |-> FALSE, intent |-> "COLD", confidence |-> 800,
    parts |-> <<
      {[pieces |-> <<<<"c", "o", "l", "d">>>>, plus |-> FALSE],
       [pieces |-> <<<<"c", "o", "l">>>>, plus |-> FALSE],
       [pieces |-> <<<<"c", "o", "h">>>>, plus |-> FALSE],
       [pieces |-> <<<<"c", "o", "w", "d">>>>, plus |-> FALSE]}>>],
   [anchored |-> FALSE, intent |-> "COLD", confidence |-> 750,
    parts |-> <<
      {[pieces |-> <<<<"b", "l", "a", "n", "k", "e", "t">>>>, plus |-> FALSE],
       [pieces |-> <<<<"b", "l", "a", "n", "k", "i", "e">>>>, plus |-> FALSE]}>>],
   [anchored |-> FALSE, intent |-> "HOT", confidence |-> 800,
    parts |-> <<
      {[pieces |-> <<<<"h", "o", "t">>>>, plus |-> FALSE],
       [pieces |-> <<<<"h", "a", "h">>>>, plus |-> FALSE],
       [pieces |-> <<<<"h", "o", "h">>>>, plus |-> FALSE]}>>],
   [anchored |-> FALSE, intent |-> "HOT", confidence |-> 750,
    parts |-> <<
      {[pieces |-> <<<<"w", "a", "r", "m">>>>, plus |-> FALSE],
       [pieces |-> <<<<"w", "a", "m">>>>, plus |-> FALSE]}>>]
  >>

\* the words of INTENT_PHONETIC_MAP in the order _phonetic_intent_match visits
\* them: intent by intent, the canonical words before the variants; each with
\* the code _phonetic_distance computes for it
RECURSIVE PhoneticEntriesFrom(_)
PhoneticEntriesFrom(n) ==
  IF n > Len(INTENT_PHONETIC_MAP) THEN <<>>
  ELSE LET v == INTENT_PHONETIC_MAP[n]
       IN List([i \in 1..Len(v.canonical) |->
             [intent |-> v.intent, canonical |-> TRUE, word |-> v.canonical[i],
              code |-> aphasia_soundex(v.canonical[i])]])
          \o List([i \in 1..Len(v.aphasia_variants) |->
             [intent |-> v.intent, canonical |-> FALSE, word |-> v.aphasia_variants[i],
              code |-> aphasia_soundex(v.aphasia_variants[i])]])
          \o PhoneticEntriesFrom(n + 1)

PhoneticEntries == PhoneticEntriesFrom(1)

\* the score of the entry e against a word of the code word_code (lines 344
\* and 353), in thousandths
PhoneticScore(word_code, e) ==
  IF e.canonical THEN CodeDistance(word_code, e.code)
  ELSE (CodeDistance(word_code, e.code) * 9) \div 10

\* lines 343 and 352: the result for a word that is the entry e
ExactMatch(e) ==
  <<e.intent, IF e.canonical THEN (95 * TextOne) \div 100 ELSE (85 * TextOne) \div 100>>

\* lines 345-347 and 354-356: the first entry of the highest score among the
\* entries `scoring`, whose scores are above zero
BestScore(entries, scores, scoring) ==
  IF scoring = {} THEN <<"", 0>>
  ELSE <<entries[First({n \in scoring : \A m \in scoring : scores[n] >= scores[m]})].intent,
         scores[First({n \in scoring : \A m \in scoring : scores[n] >= scores[m]})]>>

\* the loop of _phonetic_intent_match over the entries: it returns at the
\* first entry equal to `word`; without one it ends with the best score
PhoneticMatchAmong(entries, exact, scores) ==
  IF exact # {} THEN ExactMatch(entries[First(exact)])
  ELSE BestScore(entries, scores, {n \in 1..Len(entries) : scores[n] > 0})

\* the entries whose word is `word`
ExactEntries(entries, word) == {n \in 1..Len(entries) : entries[n].word = word}

\* the score of each entry against a word of the code word_code
EntryScores(entries, word_code) ==
  List([n \in 1..Len(entries) |-> PhoneticScore(word_code, entries[n])])

\* _phonetic_intent_match of the entries; the intent None is ""
PhoneticMatch(entries, word) ==
  PhoneticMatchAmong(entries, ExactEntries(entries, word),
                     EntryScores(entries, aphasia_soundex(word)))

\* _phonetic_intent_match
phonetic_intent_match(word) == PhoneticMatch(PhoneticEntries, word)

\* \w
IsWordChar(c) ==
  c \in {LOWERCASE[i] : i \in 1..26} \cup {UPPERCASE[i] : i \in 1..26} \cup DIGITS \cup {"_"}

\* \b before position p of the text (p = Len(text) + 1 is its end)
Boundary(text, p) ==
  (p > 1 /\ IsWordChar(text[p - 1])) # (p <= Len(text) /\ IsWordChar(text[p]))

\* the positions after a match of the pieces k, k+1, ... of an alternative
\* that starts at position i
RECURSIVE MatchEnds(_, _, _, _)
MatchEnds(text, i, alt, k) ==
  LET piece == alt.pieces[k]
      j == i + Len(piece)
  IN IF j - 1 > Len(text) \/ SubSeq(text, i, j - 1) # piece THEN {}
     ELSE IF k < Len(alt.pieces)
     THEN UNION {MatchEnds(text, s, alt, k + 1) :
                   s \in {s \in j..(Len(text) + 1) :
                            \A q \in j..(s - 1) : text[q] \in WHITESPACE}}
     ELSE IF alt.plus
     THEN {e \in j..(Len(text) + 1) : \A q \in j..(e - 1) : text[q] = piece[Len(piece)]}
     ELSE {j}

\* the positions after a match of the parts k, k+1, ... of a pattern that is
\* not anchored, looked for from position `from` on
RECURSIVE PartsMatch(_, _, _, _)
PartsMatch(text, from, parts, k) ==
  \E i \in from..Len(text) : \E alt \in parts[k] :
     /\ Boundary(text, i)
     /\ \E e \in MatchEnds(text, i, alt, 1) :
           /\ Boundary(text, e)
           /\ k < Len(parts) => PartsMatch(text, e, parts, k + 1)

\* re.search(pattern, text, re.IGNORECASE) finds a match; the text has no
\* line break
re_search(pattern, text) ==
  IF pattern.anchored
  THEN \E alt \in pattern.parts[1] : (Len(text) + 1) \in MatchEnds(text, 1, alt, 1)
  ELSE PartsMatch(text, 1, pattern.parts, 1)

\* the result of a stage that found no match
NoMatch == <<>>

KeywordIntent(word) ==
  INTENT_KEYWORDS[First({k \in 1..Len(INTENT_KEYWORDS) : INTENT_KEYWORDS[k][1] = word})][2]

IsKeyword(word) == \E k \in 1..Len(INTENT_KEYWORDS) : INTENT_KEYWORDS[k][1] = word

\* stage 1, lines 389-394
ExactKeywordStage(text, words) ==
  LET hits == {i \in 1..Len(words) : IsKeyword(words[i])}
  IN IF hits = {} THEN NoMatch
     ELSE <<KeywordIntent(words[First(hits)]), (90 * TextOne) \div 100>>

\* lines 399-402: the words whose match has an intent and a score of 0.6 or more
PhoneticCandidates(matches) ==
  {i \in 1..Len(matches) : matches[i][1] # "" /\ 10 * matches[i][2] >= 6 * TextOne}

\* lines 404-409: the stable sort puts first the earliest word among those of
\* the highest score
BestCandidate(matches, phonetic_candidates) ==
  IF phonetic_candidates = {} THEN NoMatch
  ELSE matches[First({i \in phonetic_candidates :
                        \A j \in phonetic_candidates : matches[i][2] >= matches[j][2]})]

\* stage 2, lines 399-410
PhoneticStage(text, words) ==
  LET matches == List([i \in 1..Len(words) |-> phonetic_intent_match(words[i])])
  IN BestCandidate(matches, PhoneticCandidates(matches))

\* stage 3, lines 415-418
SubstringStage(text, words) ==
  LET hits == {k \in 1..Len(INTENT_KEYWORDS) : Contains(text, INTENT_KEYWORDS[k][1])}
  IN IF hits = {} THEN NoMatch
     ELSE <<INTENT_KEYWORDS[First(hits)][2], (70 * TextOne) \div 100>>

\* stage 4, lines 423-426
FuzzyStage(text, words) ==
  LET hits == {k \in 1..Len(FUZZY_PATTERNS) : re_search(FUZZY_PATTERNS[k], text)}
  IN IF hits = {} THEN NoMatch
     ELSE <<FUZZY_PATTERNS[First(hits)].intent, FUZZY_PATTERNS[First(hits)].confidence>>

\* a repetition stage that counts the first short word among the similar ones
RepetitionStageCountingFirst(text, words) ==
  LET short_words == SelectSeq(words, LAMBDA w : Len(w) <= 3)
      first_code == aphasia_soundex(short_words[1])
      similar_count ==
        Cardinality({i \in 1..Len(short_words) : aphasia_soundex(short_words[i]) = first_code})
  IN IF /\ Len(words) >= 2
        /\ 2 * Len(short_words) >= Len(words)
        /\ Len(short_words) >= 2
        /\ 10 * similar_count >= 4 * Len(short_words)
     THEN <<"HELP", (50 * TextOne) \div 100>>
     ELSE NoMatch

\* stage 5, lines 432-445
RepetitionStage(text, words) ==
  LET short_words == SelectSeq(words, LAMBDA w : Len(w) <= 3)
      first_code == aphasia_soundex(short_words[1])
      similar_count ==
        Cardinality({i \in 2..Len(short_words) : aphasia_soundex(short_words[i]) = first_code})
  IN IF /\ Len(words) >= 2
        /\ 2 * Len(short_words) >= Len(words)
        /\ Len(short_words) >= 2
        /\ 10 * similar_count >= 4 * Len(short_words)
     THEN <<"HELP", (50 * TextOne) \div 100>>
     ELSE NoMatch

\* the result of a stage of the cascade
StageResult(stage, text, words) ==
  CASE stage = 1 -> ExactKeywordStage(text, words)
    [] stage = 2 -> PhoneticStage(text, words)
    [] stage = 3 -> SubstringStage(text, words)
    [] stage = 4 -> FuzzyStage(text, words)
    [] stage = 5 -> RepetitionStage(text, words)

RECURSIVE Cascade(_, _, _)

\* the return of a stage that found a match, the later stages otherwise
ReturnOrElse(result, stages, text, words) ==
  IF result # NoMatch THEN result ELSE Cascade(stages, text, words)

\* the result of the first stage of a list that finds a match
Cascade(stages, text, words) ==
  IF stages = <<>> THEN <<"UNKNOWN", (30 * TextOne) \div 100>>
  ELSE ReturnOrElse(StageResult(Head(stages), text, words), Tail(stages), text, words)

\* a matcher that looks for a keyword inside the text before it compares sounds
detect_intent_substring_first(transcription) ==
  IF transcription = <<>> THEN <<"UNKNOWN", 0>>
  ELSE LET text == strip(lower(transcription))
       IN Cascade(<<1, 3, 2, 4, 5>>, text, split(text))

\* a matcher without the test of line 379 for an empty transcription
detect_intent_unchecked(transcription) ==
  LET text == strip(lower(transcription))
  IN Cascade(<<1, 2, 3, 4, 5>>, text, split(text))

\* detect_intent_from_transcription
detect_intent_from_transcription(transcription) ==
  IF transcription = <<>> THEN <<"UNKNOWN", 0>>
  ELSE LET text == strip(lower(transcription))
       IN Cascade(<<1, 2, 3, 4, 5>>, text, split(text))

CallDetectIntentFromTranscription(transcription) ==
  PureCall("detect_intent_from_transcription", transcription,
           detect_intent_from_transcription(transcription))

\* ------------------------------------------------------------------- azure_ml
\* 1.0 in the units the confidences of the two models are kept in
CombOne == 100000

\* a combiner that returns the weighted score of the winner, with the penalty
combine_predictions_weighted(hubert_intent, hubert_confidence, wav2vec_intent, wav2vec_confidence) ==
  IF hubert_intent = wav2vec_intent
  THEN LET boosted == ((hubert_confidence * 60 + wav2vec_confidence * 40) * 115) \div 10000
       IN <<hubert_intent, IF boosted > CombOne THEN CombOne ELSE boosted>>
  ELSE IF hubert_confidence * 60 >= wav2vec_confidence * 40
  THEN <<hubert_intent, (hubert_confidence * 60 * 85) \div 10000>>
  ELSE <<wav2vec_intent, (wav2vec_confidence * 40 * 85) \div 10000>>

\* a combiner that leaves out the cap at 1.0
combine_predictions_uncapped(hubert_intent, hubert_confidence, wav2vec_intent, wav2vec_confidence) ==
  IF hubert_intent = wav2vec_intent
  THEN <<hubert_intent, ((hubert_confidence * 60 + wav2vec_confidence * 40) * 115) \div 10000>>
  ELSE IF hubert_confidence * 60 >= wav2vec_confidence * 40
  THEN <<hubert_intent, (hubert_confidence * 85) \div 100>>
  ELSE <<wav2vec_intent, (wav2vec_confidence * 85) \div 100>>

\* _combine_predictions: HUBERT_WEIGHT 0.6, WAV2VEC_WEIGHT 0.4, the bonus 1.15
\* and the penalty 0.85 as integer factors
combine_predictions(hubert_intent, hubert_confidence, wav2vec_intent, wav2vec_confidence) ==
  IF hubert_intent = wav2vec_intent
  THEN LET boosted == ((hubert_confidence * 60 + wav2vec_confidence * 40) * 115) \div 10000
       IN <<hubert_intent, IF boosted > CombOne THEN CombOne ELSE boosted>>
  ELSE IF hubert_confidence * 60 >= wav2vec_confidence * 40
  THEN <<hubert_intent, (hubert_confidence * 85) \div 100>>
  ELSE <<wav2vec_intent, (wav2vec_confidence * 85) \div 100>>

\* a hybrid step that combines the two sides whatever they are
process_hybrid_response_combining(hubert_intent, hubert_conf, wav2vec_intent, wav2vec_conf) ==
  combine_predictions(hubert_intent, hubert_conf, wav2vec_intent, wav2vec_conf)

\* _process_hybrid_response from line 287 on: the intent and confidence it
\* returns for the predictions of the two sides
process_hybrid_response(hubert_intent, hubert_conf, wav2vec_intent, wav2vec_conf) ==
  IF hubert_intent = "UNKNOWN" /\ wav2vec_intent # "UNKNOWN" THEN <<wav2vec_intent, wav2vec_conf>>
  ELSE IF wav2vec_intent = "UNKNOWN" /\ hubert_intent # "UNKNOWN" THEN <<hubert_intent, hubert_conf>>
  ELSE IF hubert_intent = "UNKNOWN" /\ wav2vec_intent = "UNKNOWN" THEN <<"UNKNOWN", 0>>
  ELSE combine_predictions(hubert_intent, hubert_conf, wav2vec_intent, wav2vec_conf)

\* the embedding side is UNKNOWN only with confidence 0.0 (predict_intent, or
\* no embedding); the text side is UNKNOWN with 0.3 (no keyword matched) or
\* with 0.0 (no transcription)
SidesPossible(hubert_intent, hubert_conf, wav2vec_intent, wav2vec_conf) ==
  /\ hubert_intent = "UNKNOWN" => hubert_conf = 0
  /\ wav2vec_intent = "UNKNOWN" => wav2vec_conf \in {0, (30 * CombOne) \div 100}

CallProcessHybridResponse(hubert_intent, hubert_conf, wav2vec_intent, wav2vec_conf) ==
  /\ SidesPossible(hubert_intent, hubert_conf, wav2vec_intent, wav2vec_conf)
  /\ PureCall("_process_hybrid_response",
              [hubert_intent |-> hubert_intent, hubert_conf |-> hubert_conf,
               wav2vec_intent |-> wav2vec_intent, wav2vec_conf |-> wav2vec_conf],
              process_hybrid_response(hubert_intent, hubert_conf, wav2vec_intent, wav2vec_conf))

CallCombinePredictions(hubert_intent, hubert_confidence, wav2vec_intent, wav2vec_confidence) ==
  PureCall("_combine_predictions",
           [hubert_intent |-> hubert_intent, hubert_confidence |-> hubert_confidence,
            wav2vec_intent |-> wav2vec_intent, wav2vec_confidence |-> wav2vec_confidence],
           combine_predictions(hubert_intent, hubert_confidence, wav2vec_intent,
                               wav2vec_confidence))

\* ---------------------------------------------------------- process_ml_response
\* A response of the inference service is a record of the keys it has; a
\* result of one of the two models is a record too.  A key that is missing
\* stands for a value of None as well.

\* transcriptions that come with the responses
ResponseTranscriptions ==
  {<<>>,
   <<"h", "e", "l", "p">>,
   <<"w", "a", "w", "a">>,
   <<"e", "m", "e", "r", "g", "e", "n", "c", "y">>,
   <<"p", "h", "i", "l", "o", "s", "o", "p", "h", "y">>,
   <<"a", "b", "c", " ", "a", "b", "k", " ", "a", "b", "d">>}

\* detect_intent_from_transcription on these transcriptions, computed once
DetectedIntents ==
  [transcription \in ResponseTranscriptions |-> detect_intent_from_transcription(transcription)]

\* detect_intent_from_transcription, with its confidence in units of 1/CombOne
DetectIntent(transcription) ==
  LET detected == IF transcription \in DOMAIN DetectedIntents
                  THEN DetectedIntents[transcription]
                  ELSE detect_intent_from_transcription(transcription)
  IN <<detected[1], detected[2] * (CombOne \div TextOne)>>

\* predict_intent, with its confidence in units of 1/CombOne
PredictIntent(db, cents, embedding) ==
  [predict_intent(db, cents, embedding) EXCEPT !.confidence = @ \div (ConfOne \div CombOne)]

\* what process_ml_response returns, or that it raised
MlResult(intent, confidence, transcription, alternatives, embedding) ==
  [raised |-> FALSE, intent |-> intent, confidence |-> confidence,
   transcription |-> transcription, alternatives |-> alternatives, embedding |-> embedding]

MlRaised ==
  [raised |-> TRUE, intent |-> "", confidence |-> 0, transcription |-> <<>>,
   alternatives |-> <<>>, embedding |-> <<>>]

\* `result and key in result` for a result of one of the two models
HasResult(ml_response, model, key) ==
  model \in DOMAIN ml_response /\ key \in DOMAIN ml_response[model]

\* the branch of process_ml_response a response takes
ResponseKind(ml_response) ==
  IF "hubert_result" \in DOMAIN ml_response \/ "wav2vec_result" \in DOMAIN ml_response
  THEN "hybrid"
  ELSE IF "embeddings" \in DOMAIN ml_response THEN "embeddings"
  ELSE IF "intent" \in DOMAIN ml_response /\ "confidence" \in DOMAIN ml_response THEN "intent"
  ELSE IF "transcription" \in DOMAIN ml_response THEN "transcription"
  ELSE "unknown_format"

\* the response carries an embedding where its branch looks for one (lines
\* 238, 273), and that embedding
HasEmbedding(ml_response) ==
  \/ ResponseKind(ml_response) = "embeddings"
  \/ ResponseKind(ml_response) = "hybrid" /\ HasResult(ml_response, "hubert_result", "embeddings")

EmbeddingOf(ml_response) ==
  IF ~HasEmbedding(ml_response) THEN <<>>
  ELSE IF ResponseKind(ml_response) = "embeddings" THEN ml_response.embeddings
  ELSE ml_response.hubert_result.embeddings

\* the response carries a transcription where its branch looks for one (lines
\* 249, 279), and that transcription
HasTranscription(ml_response) ==
  \/ ResponseKind(ml_response) = "transcription"
  \/ /\ ResponseKind(ml_response) = "hybrid"
     /\ HasResult(ml_response, "wav2vec_result", "transcription")

TranscriptionOf(ml_response) ==
  IF ~HasTranscription(ml_response) THEN <<>>
  ELSE IF ResponseKind(ml_response) = "transcription" THEN ml_response.transcription
  ELSE ml_response.wav2vec_result.transcription

\* the call of predict_intent that process_ml_response makes for a response
\* (lines 241, 275), or the (UNKNOWN, 0.0) of line 266
HubertPrediction(db, cents, has_embedding, embedding) ==
  IF has_embedding THEN PredictIntent(db, cents, embedding)
  ELSE [raised |-> FALSE, intent |-> "UNKNOWN", confidence |-> 0, alternatives |-> <<>>]

\* the call of detect_intent_from_transcription that it makes (lines 252,
\* 281), or the (UNKNOWN, 0.0) of line 267
Wav2vecPrediction(has_transcription, transcription) ==
  IF has_transcription THEN DetectIntent(transcription)
  ELSE <<"UNKNOWN", 0>>

\* lines 284-302 of _process_hybrid_response, for the predictions of the two
\* sides
process_hybrid_response_of(ml_response, hubert, wav2vec) ==
  MlResult(process_hybrid_response(hubert.intent, hubert.confidence, wav2vec[1], wav2vec[2])[1],
           process_hybrid_response(hubert.intent, hubert.confidence, wav2vec[1], wav2vec[2])[2],
           TranscriptionOf(ml_response),
           IF hubert.intent = "UNKNOWN" /\ wav2vec[1] # "UNKNOWN" THEN <<>>
           ELSE IF hubert.intent = "UNKNOWN" THEN SubSeq(INTENTS, 1, 3)
           ELSE hubert.alternatives,
           EmbeddingOf(ml_response))

\* process_ml_response, for what predict_intent and
\* detect_intent_from_transcription return to it; confidences in units of
\* 1/CombOne
process_ml_response(ml_response, hubert, wav2vec) ==
  IF hubert.raised THEN MlRaised
  ELSE CASE ResponseKind(ml_response) = "hybrid" ->
              process_hybrid_response_of(ml_response, hubert, wav2vec)
         [] ResponseKind(ml_response) = "embeddings" ->
              MlResult(hubert.intent, hubert.confidence, <<>>, hubert.alternatives,
                       ml_response.embeddings)
         [] ResponseKind(ml_response) = "intent" ->
              MlResult(ml_response.intent, ml_response.confidence, <<>>, <<>>, <<>>)
         [] ResponseKind(ml_response) = "transcription" ->
              MlResult(wav2vec[1], wav2vec[2], ml_response.transcription, <<>>, <<>>)
         [] OTHER -> MlResult("UNKNOWN", 0, <<>>, SubSeq(INTENTS, 1, 3), <<>>)

\* a confidence in hundredths that compares with 0.4, 0.75 and 0.8 as the
\* confidence in units of 1/CombOne does
Hundredths(confidence) ==
  LET hundredth == CombOne \div 100
  IN IF confidence > 80 * hundredth /\ confidence \div hundredth = 80 THEN 81
     ELSE confidence \div hundredth

\* steps 5 to 7 of process_audio (lines 134, 147-148, 155-165): the result of
\* process_ml_response with the status, the action and the options decided
\* for it
intent_response(result) ==
  IF result.raised
  THEN [raised |-> TRUE, intent |-> "", confidence |-> 0, status |-> "",
        next_action |-> "", ui_options |-> <<>>]
  ELSE [raised |-> FALSE, intent |-> result.intent, confidence |-> result.confidence,
        status |-> determine_status_and_action(result.intent,
                                               Hundredths(result.confidence))[1],
        next_action |-> determine_status_and_action(result.intent,
                                                    Hundredths(result.confidence))[2],
        ui_options |->
          get_ui_options(result.intent,
                         determine_status_and_action(result.intent,
                                                     Hundredths(result.confidence))[1])]

\* a response of the inference service is processed
CallProcessMlResponse(ml_response) ==
  \E embedding \in {EmbeddingOf(ml_response)}, transcription \in {TranscriptionOf(ml_response)} :
    \E hubert \in {HubertPrediction(intent_db, intent_centroids,
                                     HasEmbedding(ml_response), embedding)},
       wav2vec \in {Wav2vecPrediction(HasTranscription(ml_response), transcription)} :
      \E result \in {process_ml_response(ml_response, hubert, wav2vec)} :
        PureCall("process_ml_response", ml_response, intent_response(result))

\* ------------------------------------------------------------- process_audio
\* up to the awaits of lines 83 and 106-108 (audio.read(), call_azure_ml):
\* nothing shared is read or written between the two
ProcessAudioStart(h) ==
  /\ LoopFree
  /\ pa_pc[h] = "idle"
  /\ pa_pc' = [pa_pc EXCEPT ![h] = "await_ml"]
  /\ UNCHANGED <<storeVars, pending, next_uuid, tb, wr, ret, resp, pre, redeemed, save_failures>>
  /\ UNCHANGED <<call, intent_embeddings>>

\* the read or the inference call fails (lines 84-131)
ProcessAudioFail(h) ==
  /\ LoopFree
  /\ pa_pc[h] = "await_ml"
  /\ pa_pc' = [pa_pc EXCEPT ![h] = "idle"]
  /\ resp' = Response("process_audio", 503, "ml_unavailable", FALSE, FALSE)
  /\ UNCHANGED <<storeVars, pending, next_uuid, tb, wr, ret, pre, redeemed, save_failures>>
  /\ UNCHANGED <<call, intent_embeddings>>

\* the inference service answers, with an embedding or (<<>>) without one;
\* lines 133-165 run without an await
ProcessAudioResume(h, embedding) ==
  /\ LoopFree
  /\ pa_pc[h] = "await_ml"
  /\ embedding # <<>> => next_uuid < MaxTokens
  /\ pa_pc' = [pa_pc EXCEPT ![h] = "idle"]
  /\ IF embedding # <<>> /\ PredictRaises(intent_db, intent_centroids, embedding)
     THEN /\ resp' = Response("process_audio", 500, "internal_error", FALSE, FALSE)
          /\ UNCHANGED <<pending, next_uuid, redeemed>>
     ELSE IF embedding # <<>>
     THEN LET embedding_id == NewToken(next_uuid)
          IN /\ next_uuid' = next_uuid + 1
             /\ pending' = PendingEvict(PendingInsert(pending, embedding_id, embedding))
             /\ redeemed' = Append(redeemed, [taken |-> 0, stored |-> 0])
             /\ resp' = Response("process_audio", 200, "", FALSE, FALSE)
     ELSE /\ resp' = Response("process_audio", 200, "", FALSE, FALSE)
          /\ UNCHANGED <<pending, next_uuid, redeemed>>
  /\ UNCHANGED <<storeVars, tb, wr, ret, pre, save_failures>>
  /\ UNCHANGED <<call, intent_embeddings>>

\* ------------------------------------------------------------ confirm_intent
ConfirmIntent(embedding_id, intent) ==
  /\ LoopFree
  /\ IF intent \notin IntentSet
     THEN /\ resp' = Rejected("confirm_intent", 400, "invalid_intent", embedding_id)
          /\ UNCHANGED <<storeVars, pending, wr, ret, pre, redeemed>>
     ELSE IF embedding_id \notin PendingIds(pending)
     THEN /\ resp' = Rejected("confirm_intent", 404, "embedding_not_found", embedding_id)
          /\ UNCHANGED <<storeVars, pending, wr, ret, pre, redeemed>>
     ELSE /\ Room(1)
          /\ pending' = PendingPop(pending, embedding_id)
          /\ redeemed' = Take(embedding_id, 1)
          /\ BeginAdd("add_embedding", intent, <<pending[PendingGet(pending, embedding_id)].emb>>,
                      "confirm_intent", Taken(embedding_id))
          /\ UNCHANGED resp
  /\ UNCHANGED <<next_uuid, pa_pc, tb, save_failures>>
  /\ UNCHANGED <<call, intent_embeddings>>

\* ----------------------------------------------------------- submit_feedback
SubmitFeedback(embedding_id, predicted_intent, is_correct, correct_intent) ==
  /\ LoopFree
  /\ IF predicted_intent \notin IntentSet /\ predicted_intent # "UNKNOWN"
     THEN /\ resp' = Rejected("submit_feedback", 400, "invalid_intent", embedding_id)
          /\ UNCHANGED <<storeVars, pending, wr, ret, pre, redeemed>>
     ELSE IF embedding_id \notin PendingIds(pending)
     THEN /\ resp' = Rejected("submit_feedback", 404, "embedding_not_found", embedding_id)
          /\ UNCHANGED <<storeVars, pending, wr, ret, pre, redeemed>>
     ELSE LET embedding == pending[PendingGet(pending, embedding_id)].emb
              learns == IF is_correct THEN predicted_intent # "UNKNOWN"
                        ELSE correct_intent # "" /\ correct_intent \in IntentSet
          IN /\ pending' = PendingPop(pending, embedding_id)
             /\ redeemed' = Take(embedding_id, IF learns THEN 1 ELSE 0)
             /\ IF learns
                THEN /\ Room(1)
                     /\ BeginAdd("add_embedding",
                                 IF is_correct THEN predicted_intent ELSE correct_intent,
                                 <<embedding>>, "submit_feedback", Taken(embedding_id))
                     /\ UNCHANGED resp
                ELSE /\ resp' = IF ~is_correct /\ correct_intent # ""
                                THEN Response("submit_feedback", 400, "invalid_intent", Taken(embedding_id), FALSE)
                                ELSE Response("submit_feedback", 200, "", Taken(embedding_id), FALSE)
                     /\ UNCHANGED <<storeVars, wr, ret, pre>>
  /\ UNCHANGED <<next_uuid, pa_pc, tb, save_failures>>
  /\ UNCHANGED <<call, intent_embeddings>>

\* -------------------------------------------------------------- train_single
\* the label is checked before the awaits, the embedding stored after them
TrainSingle(intent, embedding) ==
  /\ LoopFree
  /\ IF intent \notin IntentSet
     THEN /\ resp' = Response("train_single", 400, "invalid_intent", FALSE, FALSE)
          /\ UNCHANGED <<storeVars, wr, ret, pre>>
     ELSE /\ Room(1)
          /\ BeginAdd("add_embedding", intent, <<embedding>>, "train_single", FALSE)
          /\ UNCHANGED resp
  /\ UNCHANGED <<pending, next_uuid, pa_pc, tb, redeemed, save_failures>>
  /\ UNCHANGED <<call, intent_embeddings>>

\* --------------------------------------------------------------- train_batch
TrainBatchStart(intent, files) ==
  /\ LoopFree
  /\ tb.pc = "idle"
  /\ IF intent \notin IntentSet
     THEN /\ resp' = Response("train_batch", 400, "invalid_intent", FALSE, FALSE)
          /\ UNCHANGED tb
     ELSE /\ tb' = [pc |-> "loop", intent |-> intent, left |-> files, embeddings_to_add |-> <<>>]
          /\ UNCHANGED resp
  /\ UNCHANGED <<storeVars, pending, next_uuid, pa_pc, wr, ret, pre, redeemed, save_failures>>
  /\ UNCHANGED <<call, intent_embeddings>>

\* one turn of the loop: the awaits of lines 420 and 434 return; the inference
\* service gives an embedding or (<<>>) the file is counted as failed
TrainBatchFile(embedding) ==
  /\ LoopFree
  /\ tb.pc = "loop"
  /\ tb.left > 0
  /\ tb' = [tb EXCEPT !.left = @ - 1,
                      !.embeddings_to_add = IF embedding = <<>> THEN @ ELSE Append(@, embedding)]
  /\ UNCHANGED <<storeVars, pending, next_uuid, pa_pc, wr, ret, resp, pre, redeemed,
                 save_failures>>
  /\ UNCHANGED <<call, intent_embeddings>>

\* after the loop (lines 448-455)
TrainBatchFinish ==
  /\ LoopFree
  /\ tb.pc = "loop"
  /\ tb.left = 0
  /\ IF tb.embeddings_to_add # <<>>
     THEN /\ Room(Len(tb.embeddings_to_add))
          /\ BeginAdd("add_embeddings_batch", tb.intent, tb.embeddings_to_add, "train_batch", FALSE)
          /\ tb' = [tb EXCEPT !.pc = "adding"]
          /\ UNCHANGED resp
     ELSE /\ resp' = Response("train_batch", 200, "", FALSE, FALSE)
          /\ tb' = IdleBatch
          /\ UNCHANGED <<storeVars, wr, ret, pre>>
  /\ UNCHANGED <<pending, next_uuid, pa_pc, redeemed, save_failures>>
  /\ UNCHANGED <<call, intent_embeddings>>

\* --------------------------------------------------------- clear_intent_data
ClearIntentData(intent) ==
  /\ LoopFree
  /\ IF intent \notin IntentSet
     THEN /\ resp' = Response("clear_intent_data", 400, "invalid_intent", FALSE, FALSE)
          /\ UNCHANGED <<storeVars, wr, ret, pre>>
     ELSE /\ BeginClear(intent, "clear_intent_data")
          /\ UNCHANGED resp
  /\ UNCHANGED <<pending, next_uuid, pa_pc, tb, redeemed, save_failures>>
  /\ UNCHANGED <<call, intent_embeddings>>

\* ------------------------------------------------------- recompute_centroids
\* the route of that name (audio.py 557-565)
RecomputeCentroidsRoute ==
  /\ LoopFree
  /\ LET r == recompute_centroids(intent_db, intent_centroids)
     IN /\ intent_centroids' = r.cents
        /\ resp' = IF r.raised
                   THEN Response("recompute_centroids", 500, "internal_error", FALSE, FALSE)
                   ELSE Response("recompute_centroids", 200, "", FALSE, FALSE)
  /\ UNCHANGED <<intent_db, db_file, pending, next_uuid, pa_pc, tb, wr, ret, pre, redeemed,
                 save_failures>>
  /\ UNCHANGED <<call, intent_embeddings>>

\* ----------------------------------------------------------- specifications
\* embeddings of one dimension
Uniform == {e \in Embeddings : Len(e) = 1}

UniformBatches == UNION {[1..n -> Uniform] : n \in 1..MaxBatch}

\* the three mutating store functions, called with well-formed embeddings and
\* valid labels
NextUniform ==
  \/ \E intent \in ValidArgs, e \in Uniform : CallAddEmbedding(intent, e)
  \/ \E intent \in ValidArgs, es \in UniformBatches : CallAddEmbeddingsBatch(intent, es)
  \/ \E intent \in ValidArgs : CallClearIntent(intent)
  \/ \E outcome \in SaveOutcomes : SaveDb(outcome)
  \/ Finish

SpecUniform == Init /\ [][NextUniform]_vars

\* the store functions, called with any label and any embedding
NextStore ==
  \/ \E intent \in IntentArgs, e \in Embeddings : CallAddEmbedding(intent, e)
  \/ \E intent \in IntentArgs, es \in Batches : CallAddEmbeddingsBatch(intent, es)
  \/ \E intent \in IntentArgs : CallClearIntent(intent)
  \/ CallRecomputeCentroids
  \/ \E outcome \in SaveOutcomes : SaveDb(outcome)
  \/ Finish

SpecStore == Init /\ [][NextStore]_vars

\* labels and embeddings of the requests when every route is in play
LoopIntents == {INTENTS[1], "JUICE"}
LoopEmbeddings == {<<1>>}

\* the whole service: every route of audio.py that touches the two stores, on
\* a file system that does not fail (no route reads the file)
Next ==
  \/ \E h \in 1..NumAudioHandlers : ProcessAudioStart(h)
  \/ \E h \in 1..NumAudioHandlers : ProcessAudioFail(h)
  \/ \E h \in 1..NumAudioHandlers, e \in LoopEmbeddings \cup {<<>>} : ProcessAudioResume(h, e)
  \/ \E t \in {next_uuid}, intent \in LoopIntents : ConfirmIntent(t, intent)
  \/ \E t \in {next_uuid}, p \in LoopIntents, ok \in BOOLEAN, c \in LoopIntents \cup {""} :
       SubmitFeedback(t, p, ok, c)
  \/ \E intent \in LoopIntents, e \in LoopEmbeddings : TrainSingle(intent, e)
  \/ \E intent \in LoopIntents, files \in 1..MaxBatch : TrainBatchStart(intent, files)
  \/ \E e \in LoopEmbeddings \cup {<<>>} : TrainBatchFile(e)
  \/ TrainBatchFinish
  \/ \E intent \in LoopIntents : ClearIntentData(intent)
  \/ RecomputeCentroidsRoute
  \/ SaveDb("written")
  \/ Finish

Spec == Init /\ [][Next]_vars

\* the learning loop alone: process_audio, confirm_intent, submit_feedback, on
\* a file system that does not fail
NextPending ==
  \/ \E h \in 1..NumAudioHandlers : ProcessAudioStart(h)
  \/ \E h \in 1..NumAudioHandlers : ProcessAudioFail(h)
  \/ \E h \in 1..NumAudioHandlers, e \in MlEmbeddings \cup {<<>>} : ProcessAudioResume(h, e)
  \/ \E t \in 1..MaxTokens, intent \in IntentArgs : ConfirmIntent(t, intent)
  \/ \E t \in 1..MaxTokens, p \in IntentArgs, ok \in BOOLEAN, c \in IntentArgs \cup {""} :
       SubmitFeedback(t, p, ok, c)
  \/ SaveDb("written")
  \/ Finish

SpecPending == Init /\ [][NextPending]_vars

\* _load_db: every intent takes its list from the file, or the empty list
load_db(loaded) == [i \in IntentSet |-> IF i \in DOMAIN loaded THEN loaded[i] ELSE <<>>]

\* embeddings of two dimensions, and the queries made with them
Vectors2 == {<<1, 0>>, <<0, 1>>, <<1, 1>>}
Queries2 == Vectors2 \cup {<<0, 0>>, <<-1, 1>>}

\* sample lists an intent has in the file the service starts from
TrainingSets ==
  { <<>>,
    <<<<1, 0>>, <<1, 0>>>>,
    <<<<0, 1>>, <<1, 1>>>>,
    <<<<1, 0>>, <<0, 1>>, <<1, 1>>, <<1, 0>>, <<0, 1>>, <<-1, 0>>>> }

\* files an earlier run of the service has written
LoadedFiles ==
  {[i \in IntentSet |-> IF IndexOf(i) <= NumLoaded THEN f[IndexOf(i)] ELSE <<>>] :
     f \in [1..NumLoaded -> TrainingSets]}

\* the state after import: _load_db() has read the file and recomputed the centroids
InitLoaded ==
  /\ \E loaded \in LoadedFiles :
       /\ intent_db = load_db(loaded)
       /\ db_file = [status |-> "ok", data |-> loaded]
       /\ intent_centroids = recompute_centroids(load_db(loaded), NoCentroids).cents
  /\ pending = <<>>
  /\ next_uuid = 0
  /\ pa_pc = [h \in 1..NumAudioHandlers |-> "idle"]
  /\ tb = IdleBatch
  /\ wr = NoWrite
  /\ ret = NoRet
  /\ resp = NoResp
  /\ pre = [db |-> intent_db, cents |-> intent_centroids, file |-> db_file]
  /\ redeemed = <<>>
  /\ save_failures = 0
  /\ call = NoCall
  /\ intent_embeddings = <<>>

\* classification over a store of well-formed embeddings, which the store
\* functions keep changing
NextClassify ==
  \/ \E intent \in ValidArgs, e \in Vectors2 : CallAddEmbedding(intent, e)
  \/ \E intent \in ValidArgs, es \in [1..MaxBatch -> Vectors2] : CallAddEmbeddingsBatch(intent, es)
  \/ \E intent \in ValidArgs : CallClearIntent(intent)
  \/ \E e \in Queries2 : CallPredictIntent(e)
  \/ SaveDb("written")
  \/ Finish

SpecClassify == InitLoaded /\ [][NextClassify]_vars

\* classification when embeddings of either length are stored and queried
NextPredict ==
  \/ \E intent \in ValidArgs, e \in Vectors2 \cup {<<1>>} : CallAddEmbedding(intent, e)
  \/ \E intent \in ValidArgs : CallClearIntent(intent)
  \/ \E e \in Queries2 \cup {<<1>>} : CallPredictIntent(e)
  \/ SaveDb("written")
  \/ Finish

SpecPredict == InitLoaded /\ [][NextPredict]_vars

\* raw scores, margins (in units of 1/ScoreOne) and sample counts that
\* _calibrate_confidence is called with
RawScores == {k * 100 : k \in -12..12}
Margins == {-100, 0, 49, 50, 51, 1000}
SampleCounts == 0..12

NextCalibrate ==
  \E raw_score \in RawScores, margin \in Margins, num_samples \in SampleCounts :
    CallCalibrateConfidence(raw_score, margin, num_samples)

SpecCalibrate == Init /\ [][NextCalibrate]_vars

\* intents, confidences (in hundredths) and statuses the business logic is
\* called with
LogicIntents == IntentSet \cup {"UNKNOWN", "JUICE"}
LogicConfidences == 0..100
Statuses == {"auto_triggered", "confirmed", "needs_confirmation", "uncertain"}

NextLogic ==
  \/ \E intent \in LogicIntents, confidence \in LogicConfidences :
       CallDetermineStatusAndAction(intent, confidence)
  \/ \E intent \in LogicIntents, status \in Statuses : CallGetUiOptions(intent, status)

SpecLogic == Init /\ [][NextLogic]_vars

\* intents and confidences (steps of 0.05) the two models report
SideIntents == {"HELP", "WATER", "UNKNOWN"}
SideConfidences == {(k * 5 * CombOne) \div 100 : k \in 0..20}

NextHybrid ==
  \/ \E hi \in SideIntents, hc \in SideConfidences, wi \in SideIntents, wc \in SideConfidences :
       CallProcessHybridResponse(hi, hc, wi, wc)
  \/ \E hi \in SideIntents \ {"UNKNOWN"}, hc \in SideConfidences,
        wi \in SideIntents \ {"UNKNOWN"}, wc \in SideConfidences :
       CallCombinePredictions(hi, hc, wi, wc)

SpecHybrid == Init /\ [][NextHybrid]_vars

\* the text matcher on the texts of up to MaxWords words of a vocabulary that
\* has a word for every stage, on longer texts of words no stage but the last
\* can match, and on texts with capitals, blanks and punctuation
Vocabulary ==
  {<<"h", "e", "l", "p">>,
   <<"n", "o">>,
   <<"w", "a", "w", "a">>,
   <<"w", "a", "t", "e", "r", "y">>,
   <<"x", "y", "e", "s">>,
   <<"a", "n", "o", "t", "h", "e", "r">>,
   <<"b", "r", "r", "r", "m", "-", "w", "a", "t">>,
   <<"a", "b", "c">>,
   <<"a", "b", "k">>,
   <<"a", "b", "d">>,
   <<"p", "h", "i", "l", "o", "s", "o", "p", "h", "y">>,
   <<"q", "u", "a", "n", "d", "a", "r", "y">>}

ShortVocabulary ==
  {<<"a", "b", "c">>,
   <<"a", "b", "k">>,
   <<"a", "b", "d">>,
   <<"p", "h", "i", "l", "o", "s", "o", "p", "h", "y">>}

RawTranscriptions ==
  {<<" ">>,
   <<"H", "E", "L", "P">>,
   <<" ", " ", "h", "e", "l", "p", " ", " ">>,
   <<"H", "e", "l", "p", " ", "m", "e">>,
   <<"a", "b", "c", " ", " ", "a", "b", "k">>,
   <<"a", "b", "c", ".", "u", "l", "p">>}

RECURSIVE Join(_)
Join(words) ==
  IF words = <<>> THEN <<>>
  ELSE IF Len(words) = 1 THEN words[1]
  ELSE words[1] \o <<" ">> \o Join(Tail(words))

Transcriptions ==
  {Join(List(ws)) : ws \in UNION {[1..n -> Vocabulary] : n \in 0..MaxWords}}
    \cup {Join(List(ws)) : ws \in UNION {[1..n -> ShortVocabulary] : n \in 0..MaxShortWords}}
    \cup RawTranscriptions

NextText == \E transcription \in Transcriptions : CallDetectIntentFromTranscription(transcription)

SpecText == Init /\ [][NextText]_vars

\* the two stores side by side, each started with the same samples
DbVectors == {<<1, 0>>, <<1, 1>>}
DbQueries == DbVectors \cup {<<5, 2>>}

\* the samples an intent has in both stores at the start: none, or two of the
\* vector of its place in INTENTS
DbTrainingSets(i) ==
  {<<>>, IF IndexOf(i) = 1 THEN <<<<1, 0>>, <<1, 0>>>> ELSE <<<<1, 1>>, <<1, 1>>>>}

SharedFiles ==
  {[i \in IntentSet |-> IF i \in ValidArgs THEN f[i] ELSE <<>>] :
     f \in {g \in [ValidArgs -> UNION {DbTrainingSets(i) : i \in ValidArgs}] :
              \A i \in ValidArgs : g[i] \in DbTrainingSets(i)}}

\* the rows of the samples of a file, intent by intent
RECURSIVE TableOf(_, _)
TableOf(loaded, k) ==
  IF k > Len(INTENTS) THEN <<>>
  ELSE InsertRows(<<>>, INTENTS[k], loaded[INTENTS[k]]) \o TableOf(loaded, k + 1)

InitBoth ==
  /\ \E loaded \in SharedFiles :
       /\ intent_db = load_db(loaded)
       /\ db_file = [status |-> "ok", data |-> loaded]
       /\ intent_centroids = recompute_centroids(load_db(loaded), NoCentroids).cents
       /\ intent_embeddings = TableOf(loaded, 1)
  /\ pending = <<>>
  /\ next_uuid = 0
  /\ pa_pc = [h \in 1..NumAudioHandlers |-> "idle"]
  /\ tb = IdleBatch
  /\ wr = NoWrite
  /\ ret = NoRet
  /\ resp = NoResp
  /\ pre = [db |-> intent_db, cents |-> intent_centroids, file |-> db_file]
  /\ redeemed = <<>>
  /\ save_failures = 0
  /\ call = NoCall

NextDb ==
  \/ \E intent \in ValidArgs \cup {"JUICE"}, e \in DbVectors : CallAddEmbeddingDb(intent, e)
  \/ \E intent \in ValidArgs, es \in [1..MaxBatch -> {<<1, 1>>}] :
       CallAddEmbeddingsBatchDb(intent, es)
  \/ \E intent \in ValidArgs \cup {"JUICE"} : CallClearIntentDb(intent)
  \/ \E e \in DbQueries : CallPredictIntentDb(e)
  \/ \E e \in DbQueries : CallPredictIntent(e)
  \/ \E intent \in ValidArgs : CallClearIntent(intent)
  \/ SaveDb("written")
  \/ Finish

SpecDb == InitBoth /\ [][NextDb]_vars

\* ------------------------------------------------------------------ claims
\* results of the two models, with and without what the service looks for
HubertResults == {[model |-> "hubert"]} \cup {[embeddings |-> e] : e \in DbQueries}
Wav2vecResults ==
  {[model |-> "wav2vec"]} \cup {[transcription |-> t] : t \in ResponseTranscriptions}

\* responses of the inference service, of every format
MlResponses ==
  {[embeddings |-> e] : e \in DbQueries}
    \cup {[transcription |-> t] : t \in ResponseTranscriptions}
    \cup {[hubert_result |-> h, wav2vec_result |-> w] : h \in HubertResults, w \in Wav2vecResults}
    \cup {[hubert_result |-> h] : h \in HubertResults}
    \cup {[wav2vec_result |-> w] : w \in Wav2vecResults}
    \cup {[intent |-> i, confidence |-> c] : i \in {"HELP", "UNKNOWN"},
                                             c \in {0, (90 * CombOne) \div 100}}
    \cup {[model_used |-> "none"]}

\* responses processed while the store holds what it was started with
NextResponse == \E ml_response \in MlResponses : CallProcessMlResponse(ml_response)

SpecResponse == InitBoth /\ [][NextResponse]_vars

MutatingOps == {"add_embedding", "add_embeddings_batch", "clear_intent"}
InsertOps == {"add_embedding", "add_embeddings_batch"}
TokenHandlers == {"confirm_intent", "submit_feedback"}

MinOf(S) == CHOOSE x \in S : \A y \in S : x <= y

\* C1: between calls of add_embedding, add_embeddings_batch and clear_intent,
\* the cached centroid of every intent is the exact mean of its samples when
\* it has at least 2 of them, and None when it has fewer.
C1_CentroidsFresh ==
  LoopFree =>
    \A i \in IntentSet :
      IF Len(intent_db[i]) >= MIN_SAMPLES_FOR_PREDICTION
      THEN /\ intent_centroids[i].n # 0
           /\ ~Ragged(intent_db[i])
           /\ SameMean(intent_centroids[i], MeanOf(intent_db[i]))
      ELSE intent_centroids[i] = None

\* C2, as claimed: a confirm_intent or submit_feedback call made with a token
\* that a handler has taken before answers embedding_not_found.
C2_TakenTokenNotFound ==
  (resp.handler \in TokenHandlers /\ resp.before) => resp.error = "embedding_not_found"

\* C2, amended: such a call fails and stores nothing; it answers
\* embedding_not_found (404), or invalid_intent (400) when its label is
\* rejected before the token is looked up.
C2_TakenTokenFails ==
  (resp.handler \in TokenHandlers /\ resp.before) =>
    /\ ~resp.learned
    /\ \/ resp.code = 404 /\ resp.error = "embedding_not_found"
       \/ resp.code = 400 /\ resp.error = "invalid_intent"

C2_Witness ==
  resp.handler = "submit_feedback" /\ resp.before /\ resp.error = "embedding_not_found"

\* C3: when process_audio adds a token to a full pending store, exactly the
\* token issued earliest among those present leaves it; every other entry
\* stays as it was and the new token is present.
C3_EvictsOldest ==
  [][(next_uuid' # next_uuid /\ Len(pending) = PendingCapacity) =>
       LET ids == PendingIds(pending)
       IN /\ PendingIds(pending') = (ids \ {MinOf(ids)}) \cup {next_uuid'}
          /\ Len(pending') = PendingCapacity
          /\ \A k \in 1..Len(pending') :
               pending'[k].id \in ids => \E m \in 1..Len(pending) : pending[m] = pending'[k]]_vars

\* a token was evicted after an older one had been consumed
C3_Witness ==
  \E a, b \in 1..Len(redeemed) :
    /\ a < b
    /\ redeemed[a].taken > 0
    /\ redeemed[b].taken = 0
    /\ b \notin PendingIds(pending)

\* C4: the pending store never holds more tokens than its capacity.
C4_PendingBounded == Len(pending) <= PendingCapacity

C4_Witness == Len(pending) = PendingCapacity /\ next_uuid > PendingCapacity

\* C5: whatever the interleaving of the coroutines, the embedding of a token
\* is handed to at most one handler and at most one sample is stored from it.
C5_RedeemedOnce ==
  \A t \in 1..Len(redeemed) : redeemed[t].taken <= 1 /\ redeemed[t].stored <= 1

\* a token has been redeemed and stored while two process_audio requests are in flight
C5_Witness ==
  /\ \A h \in 1..NumAudioHandlers : pa_pc[h] = "await_ml"
  /\ \E t \in 1..Len(redeemed) : redeemed[t].stored = 1

C7_ClosedIntentSet ==
  /\ DOMAIN intent_db = IntentSet
  /\ (LoopFree /\ ret.op \in MutatingOps /\ ret.intent \notin IntentSet) =>
       /\ ret.done
       /\ ~ret.raised
       /\ ~ret.ok
       /\ ret.n = 0
       /\ Store = pre

\* a rejected batch insert into a store that holds samples
C7_Witness ==
  /\ LoopFree
  /\ ret.op = "add_embeddings_batch"
  /\ ret.intent = "JUICE"
  /\ Total(intent_db) > 0

\* C8: an insert of an embedding whose length differs from that of a stored
\* sample fails and leaves samples, centroids and file as they were.
C8_MismatchRejected ==
  (LoopFree /\ ret.op \in InsertOps /\ InIntents(ret.intent) /\ ret.mismatch) =>
    /\ ret.done
    /\ ret.raised \/ ~ret.ok
    /\ Store = pre

\* C9: when a mutating call returns success, the file holds exactly the
\* sample lists in memory.
C9_PersistedOnSuccess ==
  (LoopFree /\ ret.done /\ ret.op \in MutatingOps /\ ret.ok) =>
    /\ db_file.status = "ok"
    /\ db_file.data = intent_db

\* C10: once a store call has changed the sample lists, the only steps taken
\* until it returns are its own file write and its own recomputation; no
\* coroutine moves, no centroid is recomputed and no request is classified
\* in between.
C10_WriteAtomic ==
  [][/\ wr.phase = "appended" =>
          /\ wr' = [wr EXCEPT !.phase = "saved"]
          /\ UNCHANGED <<intent_db, intent_centroids, pending, next_uuid, pa_pc, tb, resp>>
     /\ wr.phase = "saved" =>
          /\ wr' = NoWrite
          /\ UNCHANGED <<intent_db, db_file, pending, next_uuid, pa_pc>>
          /\ tb' # tb => wr.caller = "train_batch"
     /\ intent_centroids' # intent_centroids => wr.phase # "appended" /\ wr'.phase = "none"
     /\ (\E h \in 1..NumAudioHandlers : pa_pc[h] = "await_ml" /\ pa_pc'[h] = "idle") =>
          wr.phase = "none"]_vars

\* a batch write is mid-way while both process_audio requests wait for the
\* inference service
C10_Witness ==
  /\ wr.phase = "appended"
  /\ wr.caller = "train_batch"
  /\ \A h \in 1..NumAudioHandlers : pa_pc[h] = "await_ml"

\* a confirm_intent / submit_feedback call whose token was not in the pending
\* store has just been answered: the response says so, and no store call or
\* process_audio step is what changed it
AbsentTokenAnswered ==
  /\ resp'.handler \in TokenHandlers
  /\ resp'.absent
  /\ wr.phase = "none"
  /\ wr'.phase = "none"
  /\ pa_pc' = pa_pc

\* C11, as claimed: a confirm_intent or submit_feedback call whose token is not
\* in the pending store answers embedding_not_found and leaves the pending
\* store and every sample list as they were.
C11_AbsentTokenNotFound ==
  [][AbsentTokenAnswered =>
       /\ resp'.error = "embedding_not_found"
       /\ UNCHANGED <<pending, intent_db>>]_vars

\* C11, amended: such a call stores nothing and leaves the pending store, the
\* sample lists, the centroids and the file as they were; it answers
\* embedding_not_found (404), or invalid_intent (400) when its label is
\* rejected before the token is looked up.
C11_AbsentTokenFails ==
  [][AbsentTokenAnswered =>
       /\ ~resp'.learned
       /\ \/ resp'.code = 404 /\ resp'.error = "embedding_not_found"
          \/ resp'.code = 400 /\ resp'.error = "invalid_intent"
       /\ UNCHANGED <<pending, intent_db, intent_centroids, db_file>>]_vars

\* a confirm_intent call with a token no handler had taken (never issued, or
\* evicted) was answered embedding_not_found while the pending store was full
\* and the sample store held samples
C11_Witness ==
  /\ resp.handler = "confirm_intent"
  /\ resp.absent
  /\ ~resp.before
  /\ resp.error = "embedding_not_found"
  /\ Len(pending) = PendingCapacity
  /\ Total(intent_db) > 0

\* the last call was a call of predict_intent
Predicted == call.fn = "predict_intent"

\* intents with at least 2 samples
Trained == {i \in IntentSet : Len(intent_db[i]) >= 2}

QueryFits ==
  \A i \in Trained :
    /\ \A k \in 1..Len(intent_db[i]) : Len(intent_db[i][k]) = Len(call.arg)
    /\ intent_centroids[i].n # 0 => Len(intent_centroids[i].sum) = Len(call.arg)

C13_UnknownIffUntrained ==
  Predicted =>
    /\ ~call.out.raised
    /\ Trained = {} =>
         /\ call.out.intent = "UNKNOWN"
         /\ call.out.confidence = 0
         /\ call.out.alternatives = <<INTENTS[1], INTENTS[2], INTENTS[3]>>
    /\ Trained # {} => call.out.intent \in IntentSet

\* UNKNOWN was returned after a clear_intent took the last trained intent away
C13_Witness ==
  /\ Predicted
  /\ call.out.intent = "UNKNOWN"
  /\ ret.op = "clear_intent"
  /\ ret.done
  /\ \E i \in IntentSet : Len(pre.db[i]) >= 2

\* C14: the winner and every alternative of a result other than UNKNOWN have
\* at least 2 samples, also right after an intent with a centroid was cleared.
C14_ResultsAreTrained ==
  (Predicted /\ ~call.out.raised /\ call.out.intent # "UNKNOWN") =>
    /\ call.out.intent \in Trained
    /\ \A k \in 1..Len(call.out.alternatives) : call.out.alternatives[k] \in Trained

\* a result with alternatives was returned while a cleared intent still had
\* its centroid
C14_Witness ==
  /\ Predicted
  /\ call.out.intent \in IntentSet
  /\ Len(call.out.alternatives) > 0
  /\ ret.op = "clear_intent"
  /\ \E i \in IntentSet : intent_db[i] = <<>> /\ intent_centroids[i] # None

\* combined_score of an intent for the query of the last call
ScoreOf(i) == combined_score(intent_db, intent_centroids, call.arg, i)

C16_PenaltiesLower ==
  call.fn = "_calibrate_confidence" =>
    LET a == call.arg
    IN /\ \A m \in Margins :
            (a.margin * 100 < 5 * ScoreOne /\ m * 100 >= 5 * ScoreOne) =>
              call.out <= calibrate_confidence(a.raw_score, m, a.num_samples)
       /\ \A n \in SampleCounts :
            /\ (a.num_samples < 5 /\ n >= 5 /\ n < 10) =>
                 call.out <= calibrate_confidence(a.raw_score, a.margin, n)
            /\ (a.num_samples >= 5 /\ a.num_samples < 10 /\ n >= 10) =>
                 call.out <= calibrate_confidence(a.raw_score, a.margin, n)
            /\ (a.num_samples < 5 /\ n >= 10) =>
                 call.out <= calibrate_confidence(a.raw_score, a.margin, n)

\* a call with both penalties whose result is positive and strictly below the
\* result without them
C16_Witness ==
  /\ call.fn = "_calibrate_confidence"
  /\ call.arg.margin = 49
  /\ call.arg.num_samples = 4
  /\ call.out > 0
  /\ call.out < calibrate_confidence(call.arg.raw_score, 50, 10)

\* C17: determine_status_and_action returns (auto_triggered, trigger_alert)
\* for EMERGENCY above 0.8; otherwise (confirmed, resolve_confirmation) from
\* 0.75 on for YES and NO; otherwise (confirmed, await_user_confirmation) from
\* 0.75 on; otherwise (needs_confirmation, show_options) from 0.4 on;
\* otherwise (uncertain, ask_repeat); auto_triggered for nothing else.
C17_DecisionTable ==
  call.fn = "determine_status_and_action" =>
    LET i == call.arg.intent
        c == call.arg.confidence
    IN /\ (i = "EMERGENCY" /\ c > 80) => call.out = <<"auto_triggered", "trigger_alert">>
       /\ (~(i = "EMERGENCY" /\ c > 80) /\ c >= 75 /\ i \in {"YES", "NO"}) =>
            call.out = <<"confirmed", "resolve_confirmation">>
       /\ (~(i = "EMERGENCY" /\ c > 80) /\ c >= 75 /\ i \notin {"YES", "NO"}) =>
            call.out = <<"confirmed", "await_user_confirmation">>
       /\ (c >= 40 /\ c < 75) => call.out = <<"needs_confirmation", "show_options">>
       /\ c < 40 => call.out = <<"uncertain", "ask_repeat">>
       /\ call.out[1] = "auto_triggered" => (i = "EMERGENCY" /\ c > 80)

\* EMERGENCY at exactly 0.8 was decided
C17_Witness ==
  /\ call.fn = "determine_status_and_action"
  /\ call.arg.intent = "EMERGENCY"
  /\ call.arg.confidence = 80
  /\ call.out = <<"confirmed", "await_user_confirmation">>

\* C18: get_ui_options returns ["Repeat", "Cancel"] when the status is
\* uncertain, whatever the intent; for any other status it returns the entry
\* of the intent in the static table.
C18_UiOptions ==
  call.fn = "get_ui_options" =>
    /\ call.arg.status = "uncertain" => call.out = <<"Repeat", "Cancel">>
    /\ (call.arg.status # "uncertain" /\ call.arg.intent \in DOMAIN UI_OPTIONS) =>
         call.out = UI_OPTIONS[call.arg.intent]
    /\ (call.arg.status # "uncertain" /\ call.arg.intent = "HELP") =>
         call.out = <<"Confirm Help", "Cancel">>

\* the options of an uncertain WATER were asked for
C18_Witness ==
  /\ call.fn = "get_ui_options"
  /\ call.arg.status = "uncertain"
  /\ call.arg.intent = "WATER"
  /\ call.out # UI_OPTIONS["WATER"]

\* C19: when exactly one side of the hybrid classification is UNKNOWN, the
\* result is the other side's intent and confidence, unchanged; when both are
\* UNKNOWN, the result is UNKNOWN with confidence 0.0.
C19_UnknownSides ==
  call.fn = "_process_hybrid_response" =>
    LET a == call.arg
    IN /\ (a.hubert_intent = "UNKNOWN" /\ a.wav2vec_intent # "UNKNOWN") =>
            call.out = <<a.wav2vec_intent, a.wav2vec_conf>>
       /\ (a.hubert_intent # "UNKNOWN" /\ a.wav2vec_intent = "UNKNOWN") =>
            call.out = <<a.hubert_intent, a.hubert_conf>>
       /\ (a.hubert_intent = "UNKNOWN" /\ a.wav2vec_intent = "UNKNOWN") =>
            call.out = <<"UNKNOWN", 0>>

\* both sides were UNKNOWN and the text side had reported 0.3
C19_Witness ==
  /\ call.fn = "_process_hybrid_response"
  /\ call.arg.hubert_intent = "UNKNOWN"
  /\ call.arg.wav2vec_intent = "UNKNOWN"
  /\ call.arg.wav2vec_conf = (30 * CombOne) \div 100
  /\ call.out = <<"UNKNOWN", 0>>

\* C20: when both models give the same known intent, the combiner returns it
\* with confidence min(1.0, (0.6 conf_E + 0.4 conf_T) * 1.15), which is 0.989
\* for 0.9 and 0.8 and never above 1.0.
C20_AgreementBonus ==
  (/\ call.fn = "_combine_predictions"
   /\ call.arg.hubert_intent = call.arg.wav2vec_intent
   /\ call.arg.hubert_intent # "UNKNOWN") =>
    LET e == call.arg.hubert_confidence
        t == call.arg.wav2vec_confidence
        exact == (6 * e + 4 * t) * 115
    IN /\ call.out[1] = call.arg.hubert_intent
       /\ call.out[2] * 1000 = (IF exact > CombOne * 1000 THEN CombOne * 1000 ELSE exact)
       /\ call.out[2] <= CombOne
       /\ (e * 10 = 9 * CombOne /\ t * 10 = 8 * CombOne) => call.out[2] * 1000 = 989 * CombOne

\* an agreement whose bonus was cut off at 1.0
C20_Witness ==
  /\ call.fn = "_combine_predictions"
  /\ call.arg.hubert_intent = call.arg.wav2vec_intent
  /\ call.out[2] = CombOne
  /\ (6 * call.arg.hubert_confidence + 4 * call.arg.wav2vec_confidence) * 115 > CombOne * 1000

\* C21: when the two models give known but different intents, the combiner
\* returns the intent of the higher weighted score (0.6 conf_E against
\* 0.4 conf_T), the embedding side on a tie, with that side's own confidence
\* times 0.85.
C21_DisagreementPenalty ==
  (/\ call.fn = "_combine_predictions"
   /\ call.arg.hubert_intent # call.arg.wav2vec_intent
   /\ call.arg.hubert_intent # "UNKNOWN"
   /\ call.arg.wav2vec_intent # "UNKNOWN") =>
    LET e == call.arg.hubert_confidence
        t == call.arg.wav2vec_confidence
    IN /\ 6 * e >= 4 * t =>
            /\ call.out[1] = call.arg.hubert_intent
            /\ call.out[2] * 100 = e * 85
       /\ 6 * e < 4 * t =>
            /\ call.out[1] = call.arg.wav2vec_intent
            /\ call.out[2] * 100 = t * 85

\* a disagreement of equal weighted scores (0.2 against 0.3) was combined
C21_Witness ==
  /\ call.fn = "_combine_predictions"
  /\ call.arg.hubert_intent # call.arg.wav2vec_intent
  /\ call.arg.hubert_confidence > 0
  /\ 6 * call.arg.hubert_confidence = 4 * call.arg.wav2vec_confidence
  /\ call.out[1] = call.arg.hubert_intent

\* the text a call of the matcher works on, and its words
CallText == strip(lower(call.arg))
CallWords == split(CallText)
Detected == call.fn = "detect_intent_from_transcription"

\* the results of the five stages on the text of the call
StageResults ==
  <<ExactKeywordStage(CallText, CallWords), PhoneticStage(CallText, CallWords),
    SubstringStage(CallText, CallWords), FuzzyStage(CallText, CallWords),
    RepetitionStage(CallText, CallWords)>>

\* C22: detect_intent_from_transcription returns (HELP, 0.90) for "help",
\* WATER with a confidence of at least 0.6 for "wawa wawa", (UNKNOWN, 0.0) for
\* the empty string, and (UNKNOWN, 0.3) for a text none of the five stages
\* matches, "philosophy quandary" among them.
C22_TextExamples ==
  Detected =>
    /\ call.arg = <<"h", "e", "l", "p">> => call.out = <<"HELP", (90 * TextOne) \div 100>>
    /\ call.arg = <<"w", "a", "w", "a", " ", "w", "a", "w", "a">> =>
         /\ call.out[1] = "WATER"
         /\ 10 * call.out[2] >= 6 * TextOne
    /\ call.arg = <<>> => call.out = <<"UNKNOWN", 0>>
    /\ call.arg = <<"p", "h", "i", "l", "o", "s", "o", "p", "h", "y", " ",
                    "q", "u", "a", "n", "d", "a", "r", "y">> =>
         /\ \A k \in 1..5 : StageResults[k] = NoMatch
         /\ call.out = <<"UNKNOWN", (30 * TextOne) \div 100>>
    /\ (call.arg # <<>> /\ \A k \in 1..5 : StageResults[k] = NoMatch) =>
         call.out = <<"UNKNOWN", (30 * TextOne) \div 100>>

C22_Witness ==
  /\ Detected
  /\ call.arg = <<"p", "h", "i", "l", "o", "s", "o", "p", "h", "y", " ",
                  "q", "u", "a", "n", "d", "a", "r", "y">>
  /\ call.out = <<"UNKNOWN", (30 * TextOne) \div 100>>

\* C23: the result of the text matcher is the result of the first stage, in
\* the order exact keyword, phonetic, substring keyword, fuzzy pattern,
\* repetition, that finds a match; and when a word of the lower-cased text is a
\* key of the keyword dictionary, the result is the intent of the first such
\* word with confidence 0.90.
C23_FirstMatchWins ==
  (Detected /\ call.arg # <<>>) =>
    LET matching == {k \in 1..5 : StageResults[k] # NoMatch}
        keywords == {n \in 1..Len(CallWords) : IsKeyword(CallWords[n])}
    IN /\ matching # {} => call.out = StageResults[First(matching)]
       /\ keywords # {} =>
            call.out = <<KeywordIntent(CallWords[First(keywords)]), (90 * TextOne) \div 100>>

\* a keyword after a word the phonetic stage would match
C23_Witness ==
  /\ Detected
  /\ call.arg = <<"w", "a", "t", "e", "r", "y", " ", "n", "o">>
  /\ PhoneticStage(CallText, CallWords) \notin {NoMatch, call.out}
  /\ call.out = <<"NO", (90 * TextOne) \div 100>>

\* the short words of the call and the phonetic code of the first of them
CallShortWords == SelectSeq(CallWords, LAMBDA w : Len(w) <= 3)
EarlierStagesMiss == \A k \in 1..4 : StageResults[k] = NoMatch

\* C24 as stated: when no earlier stage matches, the result is (HELP, 0.50)
\* exactly when at least half of the words are short (3 characters or fewer)
\* and at least 40% of the short words have the phonetic code of the first
\* short word; otherwise it is (UNKNOWN, 0.3).
C24_RepetitionAsStated ==
  (Detected /\ call.arg # <<>> /\ EarlierStagesMiss) =>
    LET sharing == {i \in 1..Len(CallShortWords) :
                      aphasia_soundex(CallShortWords[i]) = aphasia_soundex(CallShortWords[1])}
    IN call.out = IF /\ 2 * Len(CallShortWords) >= Len(CallWords)
                     /\ Len(CallShortWords) >= 1
                     /\ 10 * Cardinality(sharing) >= 4 * Len(CallShortWords)
                  THEN <<"HELP", (50 * TextOne) \div 100>>
                  ELSE <<"UNKNOWN", (30 * TextOne) \div 100>>

\* C24, amended: when no earlier stage matches, the result is (HELP, 0.50)
\* exactly when at least half of the words are short and the short words after
\* the first that have the phonetic code of the first number at least 40% of
\* all the short words; otherwise it is (UNKNOWN, 0.3).
C24_RepetitionOfFirst ==
  (Detected /\ call.arg # <<>> /\ EarlierStagesMiss) =>
    LET repeating == {i \in 2..Len(CallShortWords) :
                        aphasia_soundex(CallShortWords[i]) = aphasia_soundex(CallShortWords[1])}
    IN call.out = IF /\ 2 * Len(CallShortWords) >= Len(CallWords)
                     /\ Len(CallShortWords) >= 1
                     /\ 10 * Cardinality(repeating) >= 4 * Len(CallShortWords)
                  THEN <<"HELP", (50 * TextOne) \div 100>>
                  ELSE <<"UNKNOWN", (30 * TextOne) \div 100>>

\* three short words of which only the second repeats the first: one of
\* three is below 40%
C24_Witness ==
  /\ Detected
  /\ EarlierStagesMiss
  /\ call.arg = <<"a", "b", "c", " ", "a", "b", "k", " ", "a", "b", "d">>
  /\ call.out = <<"UNKNOWN", (30 * TextOne) \div 100>>

\* list a is the beginning of list b
IsPrefix(a, b) == Len(a) <= Len(b) /\ SubSeq(b, 1, Len(a)) = a

\* C25: in every step the sample list of an intent either keeps all its
\* samples in place, new ones coming after them, or becomes empty in a step
\* that is clear_intent of that intent; no intent appears or disappears.
C25_AppendOrClear ==
  [][/\ DOMAIN intent_db' = DOMAIN intent_db
     /\ \A intent \in DOMAIN intent_db :
          \/ IsPrefix(intent_db[intent], intent_db'[intent])
          \/ /\ intent_db'[intent] = <<>>
             /\ wr'.phase = "appended"
             /\ wr'.op = "clear_intent"
             /\ wr'.intent = intent]_vars

\* clear_intent has emptied a list of two samples while another intent keeps
\* its sample
C25_Witness ==
  /\ wr.phase = "appended"
  /\ wr.op = "clear_intent"
  /\ Len(pre.db[wr.intent]) >= 2
  /\ intent_db[wr.intent] = <<>>
  /\ \E other \in DOMAIN intent_db :
       other # wr.intent /\ intent_db[other] # <<>> /\ intent_db[other] = pre.db[other]

\* the embeddings of the rows of an intent, oldest first
EmbeddingsOf(rows, intent) ==
  List([k \in 1..Len(RowsOf(rows, intent)) |-> RowsOf(rows, intent)[k].embedding])

\* C26: clear_intent on a valid intent returns success, leaves the intent
\* without samples and leaves the samples of every other intent as they were,
\* also when the intent had no samples before; the same holds of
\* clear_intent_db on the table.
C26_ClearSucceeds ==
  /\ (ret.op = "clear_intent" /\ ret.done /\ InIntents(ret.intent)) =>
       /\ ret.ok
       /\ intent_db[ret.intent] = <<>>
       /\ \A other \in DOMAIN intent_db \ {ret.intent} : intent_db[other] = pre.db[other]
  /\ (call.fn = "clear_intent_db" /\ InIntents(call.arg)) =>
       /\ call.out = TRUE
       /\ RowsOf(intent_embeddings, call.arg) = <<>>
       /\ \A other \in IntentSet \ {call.arg} :
            RowsOf(intent_embeddings, other) = RowsOf(call.before, other)

\* the step adds the embedding of the pending token to the samples of the
\* intent, after those it has, and changes no other sample list
Routed(embedding_id, intent) ==
  intent_db' = [intent_db EXCEPT
                  ![intent] = Append(@, pending[PendingGet(pending, embedding_id)].emb)]

C28_LeavesByEvictionOrStore ==
  [][\A id \in PendingIds(pending) \ PendingIds(pending') :
       \/ next_uuid' # next_uuid
       \/ /\ wr'.phase = "appended"
          /\ wr'.caller \in TokenHandlers
          /\ Routed(id, wr'.intent)]_vars

\* the table and the file-backed store hold the same samples, and the
\* centroids are those of the samples
SameSamples ==
  /\ \A k \in 1..Len(intent_embeddings) : InIntents(intent_embeddings[k].intent)
  /\ \A intent \in IntentSet : EmbeddingsOf(intent_embeddings, intent) = intent_db[intent]
  /\ intent_centroids = recompute_centroids(intent_db, intent_centroids).cents

\* C30: on the same stored samples and the same query, predict_intent_db
\* returns the intent that predict_intent returns, the qualifying intent with
\* the highest combined score.
C30_SameWinner ==
  (call.fn = "predict_intent_db" /\ LoopFree /\ SameSamples) =>
    call.out.intent = predict_intent(intent_db, intent_centroids, call.arg).intent

\* C29: when an embedding, transcription or hybrid response ends in the
\* intent UNKNOWN, its confidence is below 0.4, the status is uncertain, the
\* action ask_repeat and the options Repeat and Cancel; the status is never
\* confirmed or auto_triggered.
C29_UnknownIsUncertain ==
  (/\ call.fn = "process_ml_response"
   /\ ResponseKind(call.arg) \in {"embeddings", "transcription", "hybrid"}
   /\ ~call.out.raised
   /\ call.out.intent = "UNKNOWN") =>
    /\ call.out.confidence < (40 * CombOne) \div 100
    /\ call.out.status = "uncertain"
    /\ call.out.next_action = "ask_repeat"
    /\ call.out.ui_options = <<"Repeat", "Cancel">>
    /\ call.out.status \notin {"confirmed", "auto_triggered"}

\* a transcription in which nothing matched: UNKNOWN with 0.3
C29_Witness ==
  /\ call.fn = "process_ml_response"
  /\ ResponseKind(call.arg) = "transcription"
  /\ call.out.intent = "UNKNOWN"
  /\ call.out.confidence = (30 * CombOne) \div 100
  /\ call.out.status = "uncertain"

====
